---------------------------- MODULE Spec2Model ----------------------------
(***************************************************************************)
(* State-machine model of content/browser/browser_child_process_host.cc:   *)
(* the BrowserChildProcessHost objects ("Supervisors"), the process-wide   *)
(* list g_child_process_list, the tasks posted to the UI thread by         *)
(* Notify, the re-check scheduled by OnChildDisconnected (an object        *)
(* watcher on Windows, a delayed task elsewhere) and the UMA histograms.   *)
(*                                                                         *)
(* Everything runs on the IO thread except RunUITask, which is the UI      *)
(* thread running one posted ChildNotificationHelper task.  The child      *)
(* processes themselves, the launcher and the channel are the              *)
(* environment: their answers are inputs of the actions.                   *)
(***************************************************************************)
EXTENDS Integers, Sequences, FiniteSets

\* ---------------------------------------------------------------- bounds

\* OS process handles are 1..MaxHandle; 0 is base::kNullProcessHandle.
MaxHandle == 1

\* The hosts ever constructed are 1..MaxHosts.
MaxHosts == 2

\* A caller asks a host for its termination status at most MaxQueries
\* times.
MaxQueries == 2

\* X11 player: at most MaxEvents X events wait to be consumed, and at most
\* MaxSignals signals are delivered to the process.
MaxEvents == 2
MaxSignals == 1

\* Remoting host plugin: connect() is called at most MaxConnects times, the
\* script runs connect/disconnect only while fewer than MaxMainTasks tasks
\* wait on the main loop, the host reports a state change only while fewer
\* than MaxNPTasks tasks wait for the plugin thread, at most MaxDenied
\* logins are denied, the script calls disconnect() only while fewer than
\* MaxShutdowns host shutdowns run, and the browser makes at most MaxNPCalls
\* calls of NP_Initialize and NP_Shutdown.
MaxConnects == 2
MaxMainTasks == 2
MaxNPTasks == 1
MaxDenied == 10
MaxShutdowns == 1
MaxNPCalls == 4

\* Panel layout: the panel windows are 1..MaxPanels, the root window is
\* RootWidth wide, a panel is asked to move to x in 0..MaxX, and the
\* callbacks of one layout pass call Relayout again at most MaxReenter
\* times.
MaxPanels == 2
RootWidth == 8
MaxX == 4
MaxReenter == 1

\* ------------------------------------------------------------- constants

\* Windows: the exit code GetExitCodeProcess gives for a running process,
\* which a process may also return itself (comment above
\* OnWaitableEventSignaled).
STILL_ACTIVE == 259

kNullProcessHandle == 0

\* remoting/host/host_plugin.cc
kMaxLoginAttempts == 5

\* third_party/npapi/bindings/npapi.h, as NP_Initialize uses it.
NP_VERSION_MAJOR == 0

\* The hosts, by unique id.
Hosts == 1..MaxHosts

\* The handlers of a host read and write its own members only, and reach
\* the rest of the process through the list, the histograms and the posted
\* tasks; Spec follows one host through every order of its own events, and
\* RegistrySpec follows the list with every host.
Followed == { h \in Hosts : h = 1 }
Handles == 1..MaxHandle
\* Exit codes of a process that has exited: STILL_ACTIVE and one other.
ExitCodes == {1, STILL_ACTIVE}

\* base::TerminationStatus
TerminationStatus ==
  { "NORMAL_TERMINATION", "ABNORMAL_TERMINATION", "PROCESS_WAS_KILLED",
    "PROCESS_CRASHED", "STILL_RUNNING" }

\* content::ProcessType values given to the constructor.
ProcessTypes == { "PLUGIN", "GPU" }

\* Values of data_.name: the empty name of a new ChildProcessData and one
\* name given to SetName.
Names == { "", "name" }

\* The two builds of the file: #if defined(OS_WIN) or not.
Platforms == { "OS_WIN", "OS_POSIX" }

HistogramNames ==
  { "ChildProcess.Crashed", "ChildProcess.CrashedWasAlive",
    "ChildProcess.Killed", "ChildProcess.KilledWasAlive",
    "ChildProcess.DisconnectedAlive", "ChildProcess.Disconnected" }

\* ------------------------------------------------------------- variables

VARIABLES
  platform,               \* which build runs
  life,                   \* per host: "unborn", "alive" or "deleted"
  data_,                  \* per host: ChildProcessData {type, id, name, handle}
  child_process_,         \* per host: the ChildProcessLauncher, or "null"
  disconnect_was_alive_,  \* per host
  child_watcher_,         \* per host (Windows): watching or not, and the handle
  delayed_tasks,          \* per host: delayed OnChildDisconnected tasks queued
  channel,                \* per host: child_process_host_ and its channel
  g_child_process_list,   \* the process-wide list, in list order
  os,                     \* per handle: termination status of that process
  histograms,             \* per histogram name and process type: samples
  ui_tasks,               \* tasks posted to the UI thread, not yet run
  ui_delivered,           \* notifications delivered on the UI thread
  delegate_,              \* per host: calls its delegate received, counted
  log                     \* per host: what the host did, in program order

\* media/tools/player_x11/player_x11.cc, a program of its own.
VARIABLES
  g_running,              \* the global flag
  main_pc,                \* where main() is
  message_loop,           \* the tasks posted to main's MessageLoop, in order
  delayed_update,         \* PeriodicalUpdate tasks posted with a delay, not due
  x_events,               \* the X events XPending/XNextEvent will give
  pipeline,               \* media::Pipeline: rate, Stop calls, callbacks owed
  signals                 \* SIGTERM/SIGINT delivered so far

player_vars ==
  << g_running, main_pc, message_loop, delayed_update, x_events, pipeline,
     signals >>

\* remoting/host/host_plugin.cc: the globals of the plugin module and one
\* HostNPScriptObject.
VARIABLES
  g_at_exit_manager,       \* TRUE when the global AtExitManager exists
  g_npnetscape_funcs,      \* the function table stored, 0 for NULL
  np_calls,                \* the NP_Initialize and NP_Shutdown calls made:
                           \* function, argument, NPError returned
  np_pc,                   \* the script object: "Alive", "Waiting", "Destroyed"
  destructing_,            \* base::CancellationFlag
  disconnected_event_,     \* base::WaitableEvent, TRUE when signaled
  host_,                   \* the ChromotingHost held, 0 for NULL
  shutting,                \* Shutdown tasks the hosts have not yet posted
  main_message_loop,       \* tasks on host_context_.main_message_loop()
  failed_login_attempts_,
  denied_here,             \* OnAccessDenied calls since host_ was last set
  connects,                \* connect() calls that started a connection
  state_,
  np_tasks,                \* OnStateChanged tasks given to pluginthreadasynccall
  on_state_changed_func_,  \* TRUE when the script has set onStateChanged
  js_calls,                \* calls of the onStateChanged function, modulo 2
  state_writer             \* the thread that last wrote state_

module_vars == << g_at_exit_manager, g_npnetscape_funcs, np_calls >>

\* What OnStateChanged reads and writes.
script_vars == << state_, np_tasks, js_calls, state_writer >>

object_vars ==
  << np_pc, destructing_, disconnected_event_, host_, shutting,
     main_message_loop, failed_login_attempts_, denied_here, connects,
     script_vars, on_state_changed_func_ >>

plugin_vars == << module_vars, object_vars >>

\* ash/wm/panel_layout_manager.cc: one PanelLayoutManager and the windows
\* of its container.
VARIABLES
  panel_windows_,          \* PanelList, in list order
  dragged_panel_,          \* 0 for NULL
  in_layout_,
  panel_bounds,            \* per window: bounds().x() and bounds().width()
  children,                \* the windows of panel_container_, as they were added
  layout_passes,           \* layout passes the last handler performed
  reentered                \* Relayout calls of the last handler that found
                           \* in_layout_ set

panel_vars ==
  << panel_windows_, dragged_panel_, in_layout_, panel_bounds, children,
     layout_passes, reentered >>

\* The state of the other programs, which no handler of a
\* BrowserChildProcessHost reads or writes.
elsewhere == << player_vars, plugin_vars, panel_vars >>

\* The members of the hosts, and what a handler's effects go to.
members ==
  << life, data_, child_process_, disconnect_was_alive_, child_watcher_,
     channel >>
outputs == << histograms, ui_tasks, log >>

\* The state of the BrowserChildProcessHost program.
host_vars ==
  << platform, members, delayed_tasks, g_child_process_list, os, outputs,
     ui_delivered, delegate_ >>

vars == << host_vars, elsewhere >>

\* What the player leaves alone, and what the plugin leaves alone.
not_player == << host_vars, plugin_vars, panel_vars >>
not_plugin == << host_vars, player_vars, panel_vars >>
not_panel == << host_vars, player_vars, plugin_vars >>

\* The X events the player tells apart: a mouse button, the Escape key, the
\* space key, any other event.
XEvents == { "ButtonPress", "Escape", "Space", "Other" }

\* main() has installed the signal handlers and opened the window, and is
\* about to call InitPipeline; g_running has its static initial value.
PlayerInit ==
  /\ g_running = FALSE
  /\ main_pc = "InitPipeline"
  /\ message_loop = << >>
  /\ delayed_update = 0
  /\ x_events = << >>
  /\ pipeline = [rate |-> 0, stops |-> 0, owed |-> 0]
  /\ signals = 0

\* The function tables a browser may pass to NP_Initialize, by the version
\* field of each; 0 stands for a NULL table.
FuncTables == { 1, 2, 3 }
TableVersion(t) == CASE t = 1 -> 27 [] t = 2 -> 22 [] OTHER -> 283

\* The plugin library is loaded and not initialized; the script object is as
\* its constructor leaves it.
PluginInit ==
  /\ g_at_exit_manager = FALSE
  /\ g_npnetscape_funcs = 0
  /\ np_calls = << >>
  /\ np_pc = "Alive"
  /\ destructing_ = FALSE
  /\ disconnected_event_ = FALSE
  /\ host_ = 0
  /\ shutting = 0
  /\ main_message_loop = << >>
  /\ failed_login_attempts_ = 0
  /\ denied_here = 0
  /\ connects = 0
  /\ state_ = "kDisconnected"
  /\ np_tasks = << >>
  /\ on_state_changed_func_ = FALSE
  /\ js_calls = 0
  /\ state_writer = "none"

Windows == 1..MaxPanels

\* The bounds of a window that is not in the container.
NewBounds == [x |-> 0, width |-> 2]

\* The manager as its constructor leaves it, with an empty container.
PanelInit ==
  /\ panel_windows_ = << >>
  /\ dragged_panel_ = 0
  /\ in_layout_ = FALSE
  /\ panel_bounds = [w \in Windows |-> NewBounds]
  /\ children = << >>
  /\ layout_passes = 0
  /\ reentered = 0

\* --------------------------------------------------------------- helpers

\* Faulty variant of ListRemove: erase(find(value)) without the test for
\* end(), which here drops the last element when value is absent.
ListRemove_ErasesLast(list, value) ==
  IF \E i \in 1..Len(list) : list[i] = value
    THEN SelectSeq(list, LAMBDA k : k # value)
    ELSE IF list = << >> THEN << >> ELSE SubSeq(list, 1, Len(list) - 1)

\* std::list::remove(value): drops every element equal to value, keeps the
\* order of the others.
RECURSIVE ListRemove(_, _)
ListRemove(list, value) ==
  IF list = << >> THEN << >>
  ELSE IF Head(list) = value THEN ListRemove(Tail(list), value)
  ELSE << Head(list) >> \o ListRemove(Tail(list), value)

Elements(list) == { list[i] : i \in 1..Len(list) }

\* The fields of a host that does not exist (not yet constructed, or
\* deleted: its memory is gone).
NoData == [type |-> "none", id |-> 0, name |-> "", handle |-> kNullProcessHandle]
NoChannel == [shutdown |-> FALSE]
NoLauncher == [present |-> FALSE, done |-> FALSE, handle |-> kNullProcessHandle]
NotWatching == [watching |-> FALSE, handle |-> kNullProcessHandle]

\* The statuses of a process that has exited.
Exited == TerminationStatus \ {"STILL_RUNNING"}

\* The calls the delegate of a host has received, by callback.
NoCalls == [OnProcessLaunched |-> 0, OnChannelConnected |-> 0,
            OnChannelError |-> 0]

\* UMA_HISTOGRAM_ENUMERATION(name, data_.type, PROCESS_TYPE_MAX)
UmaSample(h, name) == [e |-> "UMA", name |-> name, type |-> data_[h].type]

\* Notify(type)
NotifyCall(type) == [e |-> "Notify", type |-> type]

\* delete this / delete host
DeleteThis == [e |-> "delete"]

RECURSIVE AddSamples(_, _)
AddSamples(hist, events) ==
  IF events = << >> THEN hist
  ELSE LET e == Head(events) IN
       AddSamples(IF e.e = "UMA"
                    THEN [hist EXCEPT ![e.name][e.type] = @ + 1]
                    ELSE hist,
                  Tail(events))

\* The tasks Notify(type) posts among `events`, each with a copy of data_.
RECURSIVE PostedTasks(_, _)
PostedTasks(h, events) ==
  IF events = << >> THEN << >>
  ELSE LET e == Head(events) IN
       (IF e.e = "Notify" THEN << [type |-> e.type, data |-> data_[h]] >>
                          ELSE << >>)
       \o PostedTasks(h, Tail(events))


\* ------------------------------------------------------------------ Init

Init ==
  /\ platform \in Platforms
  /\ life = [h \in Hosts |-> "unborn"]
  /\ data_ = [h \in Hosts |-> NoData]
  /\ child_process_ = [h \in Hosts |-> NoLauncher]
  /\ disconnect_was_alive_ = [h \in Hosts |-> FALSE]
  /\ child_watcher_ = [h \in Hosts |-> NotWatching]
  /\ delayed_tasks = [h \in Hosts |-> 0]
  /\ channel = [h \in Hosts |-> NoChannel]
  /\ g_child_process_list = << >>
  /\ os = [p \in Handles |-> "STILL_RUNNING"]
  /\ histograms = [n \in HistogramNames |-> [t \in ProcessTypes |-> 0]]
  /\ ui_tasks = << >>
  /\ ui_delivered = << >>
  /\ delegate_ = [h \in Hosts |-> NoCalls]
  /\ log = [h \in Hosts |-> << >>]
  /\ PlayerInit
  /\ PluginInit
  /\ PanelInit

\* ----------------------------------------------- effects of a handler

\* What a handler running on host h did, `events` in program order, goes
\* to the host's log; its UMA samples go to the histograms and its Notify
\* calls post one task each to the UI thread.
Effects(h, events) ==
  /\ log' = [log EXCEPT ![h] = @ \o events]
  /\ histograms' = AddSamples(histograms, events)
  /\ ui_tasks' = ui_tasks \o PostedTasks(h, events)

\* Faulty variant of Destructor: the host stays in the list.
Destructor_KeepsEntry(h) ==
  /\ g_child_process_list' = g_child_process_list
  /\ life' = [life EXCEPT ![h] = "deleted"]
  /\ data_' = [data_ EXCEPT ![h] = NoData]
  /\ child_process_' = [child_process_ EXCEPT ![h] = NoLauncher]
  /\ disconnect_was_alive_' = [disconnect_was_alive_ EXCEPT ![h] = FALSE]
  /\ child_watcher_' = [child_watcher_ EXCEPT ![h] = NotWatching]
  /\ channel' = [channel EXCEPT ![h] = NoChannel]

\* ~BrowserChildProcessHost on host h: the list drops it; its members
\* (data_, launcher, channel, watcher, weak pointers) are destroyed.
Destructor(h) ==
  /\ g_child_process_list' = ListRemove(g_child_process_list, h)
  /\ life' = [life EXCEPT ![h] = "deleted"]
  /\ data_' = [data_ EXCEPT ![h] = NoData]
  /\ child_process_' = [child_process_ EXCEPT ![h] = NoLauncher]
  /\ disconnect_was_alive_' = [disconnect_was_alive_ EXCEPT ![h] = FALSE]
  /\ child_watcher_' = [child_watcher_ EXCEPT ![h] = NotWatching]
  /\ channel' = [channel EXCEPT ![h] = NoChannel]

\* ------------------------------------------- construction and set-up

\* BrowserChildProcessHost::BrowserChildProcessHost(type, delegate).  The
\* unique ids are handed out in increasing order: host h gets id h.
Constructor(h, type) ==
  /\ life[h] = "unborn"
  /\ \A k \in Hosts : k < h => life[k] # "unborn"
  /\ life' = [life EXCEPT ![h] = "alive"]
  /\ data_' = [data_ EXCEPT ![h] =
                 [type |-> type, id |-> h, name |-> "",
                  handle |-> kNullProcessHandle]]
  /\ g_child_process_list' = Append(g_child_process_list, h)
  /\ UNCHANGED << elsewhere, platform, child_process_, disconnect_was_alive_,
                  child_watcher_, channel, delayed_tasks, os, outputs,
                  ui_delivered, delegate_ >>

\* Faulty variant of Launch: a launch also resets the handle of data_.
Launch_ClearsHandle(h) ==
  /\ life[h] = "alive"
  /\ ~child_process_[h].present
  /\ child_process_' = [child_process_ EXCEPT ![h] =
                          [present |-> TRUE, done |-> FALSE,
                           handle |-> kNullProcessHandle]]
  /\ data_' = [data_ EXCEPT ![h].handle = kNullProcessHandle]
  /\ UNCHANGED << elsewhere, platform, life, disconnect_was_alive_,
                  child_watcher_, channel, delayed_tasks,
                  g_child_process_list, os, outputs, ui_delivered,
                  delegate_ >>

\* BrowserChildProcessHost::Launch: creates the launcher, which starts the
\* process asynchronously.  Callers launch a host once.
Launch(h) ==
  /\ life[h] = "alive"
  /\ ~child_process_[h].present
  /\ child_process_' = [child_process_ EXCEPT ![h] =
                          [present |-> TRUE, done |-> FALSE,
                           handle |-> kNullProcessHandle]]
  /\ UNCHANGED << elsewhere, platform, life, data_, disconnect_was_alive_,
                  child_watcher_, channel, delayed_tasks,
                  g_child_process_list, os, outputs, ui_delivered,
                  delegate_ >>

\* Faulty variants of OnProcessLaunched: the test for a null handle is
\* missing, and the delegate is called before the test.
OnProcessLaunched_NoNullCheck(h, handle) ==
  /\ life[h] = "alive"
  /\ child_process_[h].present /\ ~child_process_[h].done
  /\ child_process_' = [child_process_ EXCEPT ![h] =
                          [present |-> TRUE, done |-> TRUE,
                           handle |-> handle]]
  /\ data_' = [data_ EXCEPT ![h].handle = handle]
  /\ delegate_' = [delegate_ EXCEPT ![h].OnProcessLaunched = @ + 1]
  /\ UNCHANGED << life, disconnect_was_alive_, child_watcher_,
                  channel, g_child_process_list, outputs >>
  /\ UNCHANGED << elsewhere, platform, delayed_tasks, os, ui_delivered >>
OnProcessLaunched_CallsDelegateFirst(h, handle) ==
  /\ life[h] = "alive"
  /\ child_process_[h].present /\ ~child_process_[h].done
  /\ delegate_' = [delegate_ EXCEPT ![h].OnProcessLaunched = @ + 1]
  /\ IF handle = kNullProcessHandle
       THEN /\ Destructor(h)
            /\ Effects(h, << [e |-> "OnProcessLaunched"], DeleteThis >>)
       ELSE /\ child_process_' = [child_process_ EXCEPT ![h] =
                                    [present |-> TRUE, done |-> TRUE,
                                     handle |-> handle]]
            /\ data_' = [data_ EXCEPT ![h].handle = handle]
            /\ UNCHANGED << life, disconnect_was_alive_, child_watcher_,
                            channel, g_child_process_list, outputs >>
  /\ UNCHANGED << elsewhere, platform, delayed_tasks, os, ui_delivered >>

\* BrowserChildProcessHost::OnProcessLaunched, called by the launcher when
\* the launch is over; `handle` is what child_process_->GetHandle() gives
\* from then on (null: the launch failed).
OnProcessLaunched(h, handle) ==
  /\ life[h] = "alive"
  /\ child_process_[h].present /\ ~child_process_[h].done
  /\ IF handle = kNullProcessHandle
       THEN /\ Destructor(h)
            /\ Effects(h, << [e |-> "OnProcessLaunched"], DeleteThis >>)
            /\ UNCHANGED delegate_
       ELSE /\ child_process_' = [child_process_ EXCEPT ![h] =
                                    [present |-> TRUE, done |-> TRUE,
                                     handle |-> handle]]
            /\ data_' = [data_ EXCEPT ![h].handle = handle]
            /\ delegate_' = [delegate_ EXCEPT ![h].OnProcessLaunched = @ + 1]
            /\ UNCHANGED << life, disconnect_was_alive_, child_watcher_,
                            channel, g_child_process_list, outputs >>
  /\ UNCHANGED << elsewhere, platform, delayed_tasks, os, ui_delivered >>

\* BrowserChildProcessHost::SetName
SetName(h, name) ==
  /\ life[h] = "alive"
  /\ data_' = [data_ EXCEPT ![h].name = name]
  /\ UNCHANGED << elsewhere, platform, life, child_process_, disconnect_was_alive_,
                  child_watcher_, channel, delayed_tasks,
                  g_child_process_list, os, outputs, ui_delivered,
                  delegate_ >>

\* BrowserChildProcessHost::SetHandle
SetHandle(h, handle) ==
  /\ life[h] = "alive"
  /\ data_' = [data_ EXCEPT ![h].handle = handle]
  /\ UNCHANGED << elsewhere, platform, life, child_process_, disconnect_was_alive_,
                  child_watcher_, channel, delayed_tasks,
                  g_child_process_list, os, outputs, ui_delivered,
                  delegate_ >>

\* Faulty variant of ForceShutdown: the channel is shut down, the host
\* stays in the list.
ForceShutdown_NoRemove(h) ==
  /\ life[h] = "alive"
  /\ channel' = [channel EXCEPT ![h].shutdown = TRUE]
  /\ UNCHANGED << elsewhere, platform, life, data_, child_process_,
                  disconnect_was_alive_, child_watcher_, delayed_tasks,
                  g_child_process_list, os, outputs, ui_delivered,
                  delegate_ >>

\* BrowserChildProcessHost::ForceShutdown
ForceShutdown(h) ==
  /\ life[h] = "alive"
  /\ g_child_process_list' = ListRemove(g_child_process_list, h)
  /\ channel' = [channel EXCEPT ![h].shutdown = TRUE]
  /\ UNCHANGED << elsewhere, platform, life, data_, child_process_,
                  disconnect_was_alive_, child_watcher_, delayed_tasks, os,
                  outputs, ui_delivered, delegate_ >>

\* Faulty variant of ShutdownStarted: the list drops its first entry
\* (pop_front) instead of this host.
ShutdownStarted_RemovesFront(h) ==
  /\ life[h] = "alive"
  /\ g_child_process_list' =
       (IF g_child_process_list = << >> THEN << >>
        ELSE Tail(g_child_process_list))
  /\ UNCHANGED << elsewhere, platform, members, delayed_tasks, os, outputs,
                  ui_delivered, delegate_ >>

\* Faulty variant of ShutdownStarted: it also shuts the channel down, as
\* ForceShutdown does.
ShutdownStarted_ShutsChannel(h) ==
  /\ life[h] = "alive"
  /\ g_child_process_list' = ListRemove(g_child_process_list, h)
  /\ channel' = [channel EXCEPT ![h].shutdown = TRUE]
  /\ UNCHANGED << elsewhere, platform, life, data_, child_process_,
                  disconnect_was_alive_, child_watcher_, delayed_tasks, os,
                  outputs, ui_delivered, delegate_ >>

\* BrowserChildProcessHost::ShutdownStarted
ShutdownStarted(h) ==
  /\ life[h] = "alive"
  /\ g_child_process_list' = ListRemove(g_child_process_list, h)
  /\ UNCHANGED << elsewhere, platform, members, delayed_tasks, os, outputs,
                  ui_delivered, delegate_ >>

\* ------------------------------------------------------ channel events

\* BrowserChildProcessHost::OnChannelConnected.  The channel of a host
\* connects once.
OnChannelConnected(h) ==
  /\ life[h] = "alive"
  /\ delegate_[h].OnChannelConnected = 0
  /\ Effects(h, << [e |-> "OnChannelConnected"],
                   NotifyCall("CHILD_PROCESS_HOST_CONNECTED") >>)
  /\ delegate_' = [delegate_ EXCEPT ![h].OnChannelConnected = @ + 1]
  /\ UNCHANGED << elsewhere, platform, members, delayed_tasks, g_child_process_list,
                  os, ui_delivered >>

\* Faulty variant of OnChannelError: the host deletes itself from this
\* callback, as a ChildProcessHostDelegate normally does (comment above
\* OnChildDisconnected).
OnChannelError_DeletesThis(h) ==
  /\ life[h] = "alive"
  /\ delegate_[h].OnChannelError = 0
  /\ delegate_' = [delegate_ EXCEPT ![h].OnChannelError = @ + 1]
  /\ Destructor(h)
  /\ Effects(h, << [e |-> "OnChannelError"], DeleteThis >>)
  /\ UNCHANGED << elsewhere, platform, delayed_tasks, os, ui_delivered >>

\* BrowserChildProcessHost::OnChannelError.  The channel of a host reports
\* its error once.
OnChannelError(h) ==
  /\ life[h] = "alive"
  /\ delegate_[h].OnChannelError = 0
  /\ delegate_' = [delegate_ EXCEPT ![h].OnChannelError = @ + 1]
  /\ UNCHANGED << elsewhere, platform, members, delayed_tasks, g_child_process_list,
                  os, outputs, ui_delivered >>

\* ------------------------------------------------- OnChildDisconnected

\* BrowserChildProcessHost::GetTerminationStatus: the status of the
\* launcher's process when there is a launcher, of data_.handle otherwise.
\* What the platform answers for the null handle is not specified: any
\* answer.
\* Faulty variant of QueriedHandle: the launcher is never asked.
QueriedHandle_IgnoresLauncher(h) == data_[h].handle

QueriedHandle(h) ==
  IF ~child_process_[h].present THEN data_[h].handle
  ELSE child_process_[h].handle

GetTerminationStatus(h) ==
  IF QueriedHandle(h) = kNullProcessHandle THEN TerminationStatus
  ELSE { os[QueriedHandle(h)] }

\* A caller on the IO thread calls GetTerminationStatus of host h; the log
\* records the call, whether there was a launcher, and the status returned.
CallGetTerminationStatus(h) ==
  /\ life[h] = "alive"
  /\ Cardinality({ i \in 1..Len(log[h]) :
                     log[h][i].e = "GetTerminationStatus" }) < MaxQueries
  /\ \E status \in GetTerminationStatus(h) :
       log' = [log EXCEPT ![h] =
                 Append(@, [e |-> "GetTerminationStatus",
                            launcher |-> child_process_[h].present,
                            status |-> status])]
  /\ UNCHANGED << elsewhere, platform, members, delayed_tasks, g_child_process_list,
                  os, histograms, ui_tasks, ui_delivered, delegate_ >>

\* Faulty variant of CrashedCase: ChildProcess.CrashedWasAlive is counted
\* without looking at disconnect_was_alive_.
CrashedCase_AlwaysWasAlive(h, exit_code) ==
  << [e |-> "OnProcessCrashed", exit_code |-> exit_code],
     NotifyCall("CHILD_PROCESS_CRASHED"),
     UmaSample(h, "ChildProcess.Crashed"),
     UmaSample(h, "ChildProcess.CrashedWasAlive") >>

\* The cases of the switch (status), without the scheduling of the
\* STILL_RUNNING case.
CrashedCase(h, exit_code) ==
  << [e |-> "OnProcessCrashed", exit_code |-> exit_code],
     NotifyCall("CHILD_PROCESS_CRASHED"),
     UmaSample(h, "ChildProcess.Crashed") >>
  \o (IF disconnect_was_alive_[h]
        THEN << UmaSample(h, "ChildProcess.CrashedWasAlive") >>
        ELSE << >>)

\* Faulty variant of KilledCase: a kill is also notified as a crash.
KilledCase_NotifiesCrash(h) ==
  << NotifyCall("CHILD_PROCESS_CRASHED"),
     UmaSample(h, "ChildProcess.Killed") >>
  \o (IF disconnect_was_alive_[h]
        THEN << UmaSample(h, "ChildProcess.KilledWasAlive") >>
        ELSE << >>)

KilledCase(h) ==
  << UmaSample(h, "ChildProcess.Killed") >>
  \o (IF disconnect_was_alive_[h]
        THEN << UmaSample(h, "ChildProcess.KilledWasAlive") >>
        ELSE << >>)

\* Faulty variant of StillRunningCase: ChildProcess.DisconnectedAlive is
\* counted before the test of disconnect_was_alive_, so also by the call
\* that schedules the re-check.
StillRunningCase_CountsBeforeTest(h) ==
  << UmaSample(h, "ChildProcess.DisconnectedAlive") >>
  \o (IF disconnect_was_alive_[h]
        THEN << >>
        ELSE << [e |-> IF platform = "OS_WIN" THEN "StartWatching"
                                              ELSE "PostDelayedTask"] >>)

StillRunningCase(h) ==
  IF disconnect_was_alive_[h]
    THEN << UmaSample(h, "ChildProcess.DisconnectedAlive") >>
    ELSE << [e |-> IF platform = "OS_WIN" THEN "StartWatching"
                                          ELSE "PostDelayedTask"] >>

\* Faulty variant of SwitchStatus: the case label of
\* TERMINATION_STATUS_ABNORMAL_TERMINATION is missing, so that status takes
\* the default case.
SwitchStatus_AbnormalUnhandled(h, status, exit_code) ==
  CASE status = "PROCESS_CRASHED" -> CrashedCase(h, exit_code)
    [] status = "PROCESS_WAS_KILLED" -> KilledCase(h)
    [] status = "STILL_RUNNING" -> StillRunningCase(h)
    [] OTHER -> << >>

\* Faulty variant of SwitchStatus: the case of
\* TERMINATION_STATUS_PROCESS_WAS_KILLED is the default case.
SwitchStatus_DefaultIsKilled(h, status, exit_code) ==
  CASE status \in {"PROCESS_CRASHED", "ABNORMAL_TERMINATION"} ->
         CrashedCase(h, exit_code)
    [] status = "STILL_RUNNING" -> StillRunningCase(h)
    [] OTHER -> KilledCase(h)

SwitchStatus(h, status, exit_code) ==
  CASE status \in {"PROCESS_CRASHED", "ABNORMAL_TERMINATION"} ->
         CrashedCase(h, exit_code)
    [] status = "PROCESS_WAS_KILLED" -> KilledCase(h)
    [] status = "STILL_RUNNING" -> StillRunningCase(h)
    [] OTHER -> << >>

\* Faulty variants of ReturnsToWait: the return of the STILL_RUNNING case is
\* missing, and the case does not look at disconnect_was_alive_.
ReturnsToWait_NoReturn(h, status) == FALSE
ReturnsToWait_IgnoresFlag(h, status) == status = "STILL_RUNNING"

\* The STILL_RUNNING case returns after scheduling the re-check.
ReturnsToWait(h, status) ==
  status = "STILL_RUNNING" /\ ~disconnect_was_alive_[h]

\* Faulty variants of TerminalStep: the notification is missing, and the
\* histogram sample is missing.
TerminalStep_NoNotify(h) ==
  << UmaSample(h, "ChildProcess.Disconnected"), DeleteThis >>
TerminalStep_NoSample(h) ==
  << NotifyCall("CHILD_PROCESS_HOST_DISCONNECTED"), DeleteThis >>

\* Faulty variant of TerminalStep: Notify is called before and after the
\* histogram sample.
TerminalStep_NotifiesTwice(h) ==
  << NotifyCall("CHILD_PROCESS_HOST_DISCONNECTED"),
     UmaSample(h, "ChildProcess.Disconnected"),
     NotifyCall("CHILD_PROCESS_HOST_DISCONNECTED"),
     DeleteThis >>

\* The code after the switch.
TerminalStep(h) ==
  << UmaSample(h, "ChildProcess.Disconnected"),
     NotifyCall("CHILD_PROCESS_HOST_DISCONNECTED"),
     DeleteThis >>

\* Faulty variant of MarkWasAlive: the assignment is missing.
MarkWasAlive_Forgotten(h) == disconnect_was_alive_

\* disconnect_was_alive_ = true
MarkWasAlive(h) == [disconnect_was_alive_ EXCEPT ![h] = TRUE]

\* BrowserChildProcessHost::OnChildDisconnected with the answer of
\* GetTerminationStatus.  `tasks` and `watcher` are delayed_tasks and
\* child_watcher_ as the caller (the message loop, the watcher) left them.
\* The first log entry records the call: status, exit code,
\* disconnect_was_alive_, data_.handle and the handle asked about, at entry.
OnChildDisconnected(h, status, exit_code, tasks, watcher) ==
  LET entry == [e |-> "OnChildDisconnected", status |-> status,
                exit_code |-> exit_code,
                was_alive |-> disconnect_was_alive_[h],
                handle |-> data_[h].handle, queried |-> QueriedHandle(h)]
  IN
  /\ IF ReturnsToWait(h, status)
       THEN /\ disconnect_was_alive_' = MarkWasAlive(h)
            /\ child_watcher_' =
                 IF platform = "OS_WIN"
                   THEN [watcher EXCEPT ![h] =
                           [watching |-> TRUE, handle |-> data_[h].handle]]
                   ELSE watcher
            /\ delayed_tasks' =
                 IF platform = "OS_WIN" THEN tasks
                 ELSE [tasks EXCEPT ![h] = @ + 1]
            /\ Effects(h, << entry >> \o SwitchStatus(h, status, exit_code))
            /\ UNCHANGED << life, data_, child_process_, channel,
                            g_child_process_list >>
       ELSE /\ Effects(h, << entry >> \o SwitchStatus(h, status, exit_code)
                          \o TerminalStep(h))
            /\ Destructor(h)
            /\ delayed_tasks' = tasks
  /\ UNCHANGED << elsewhere, platform, os, ui_delivered, delegate_ >>

\* The channel host reports the disconnection (after a channel error).
ChildDisconnected(h) ==
  /\ life[h] = "alive"
  /\ \E status \in GetTerminationStatus(h), exit_code \in ExitCodes :
       OnChildDisconnected(h, status, exit_code, delayed_tasks,
                           child_watcher_)

\* Faulty variant of RunDelayedTask: the task is bound to the plain pointer
\* of the host (base::Unretained(this)) and runs OnChildDisconnected also
\* when the host is deleted.
RunDelayedTask_Unretained(h) ==
  /\ delayed_tasks[h] > 0
  /\ \E status \in GetTerminationStatus(h), exit_code \in ExitCodes :
       OnChildDisconnected(h, status, exit_code,
                           [delayed_tasks EXCEPT ![h] = @ - 1],
                           child_watcher_)

\* The message loop runs the delayed task of host h.  The task is bound to
\* a weak pointer of task_factory_, a member of the host: it does nothing
\* once the host is deleted.
RunDelayedTask(h) ==
  /\ delayed_tasks[h] > 0
  /\ LET tasks == [delayed_tasks EXCEPT ![h] = @ - 1] IN
     IF life[h] = "alive"
       THEN \E status \in GetTerminationStatus(h), exit_code \in ExitCodes :
              OnChildDisconnected(h, status, exit_code, tasks,
                                  child_watcher_)
       ELSE /\ delayed_tasks' = tasks
            /\ UNCHANGED << elsewhere, platform, members, g_child_process_list, os,
                            outputs, ui_delivered, delegate_ >>

\* Faulty variant of OnWaitableEventSignaled: the test for STILL_ACTIVE is
\* missing and OnChildDisconnected is called for every exit code.
OnWaitableEventSignaled_AlwaysDisconnects(h, exit_code) ==
  /\ platform = "OS_WIN"
  /\ life[h] = "alive"
  /\ child_watcher_[h].watching
  /\ child_watcher_[h].handle # kNullProcessHandle
  /\ os[child_watcher_[h].handle] # "STILL_RUNNING"
  /\ \E status \in GetTerminationStatus(h) :
       OnChildDisconnected(h, status, exit_code, delayed_tasks,
         [child_watcher_ EXCEPT ![h] = NotWatching])

\* BrowserChildProcessHost::OnWaitableEventSignaled (Windows): the watched
\* handle is signaled, which it is once the process has exited;
\* `exit_code` is what GetExitCodeProcess gives.
OnWaitableEventSignaled(h, exit_code) ==
  /\ platform = "OS_WIN"
  /\ life[h] = "alive"
  /\ child_watcher_[h].watching
  /\ child_watcher_[h].handle # kNullProcessHandle
  /\ os[child_watcher_[h].handle] # "STILL_RUNNING"
  /\ IF exit_code = STILL_ACTIVE
       THEN /\ Destructor(h)
            /\ Effects(h, << [e |-> "OnWaitableEventSignaled",
                              exit_code |-> exit_code],
                             DeleteThis >>)
            /\ UNCHANGED << elsewhere, platform, delayed_tasks, os, ui_delivered,
                            delegate_ >>
       ELSE \E status \in GetTerminationStatus(h) :
              OnChildDisconnected(h, status, exit_code, delayed_tasks,
                [child_watcher_ EXCEPT ![h] = NotWatching])

\* ------------------------------------------------ destruction from outside

\* Faulty variant of DeleteElements: the iterator is advanced once more
\* after each deletion, so every second host is skipped.
RECURSIVE DeleteElements_SkipsNext(_, _)
DeleteElements_SkipsNext(copy, state) ==
  IF copy = << >> THEN state
  ELSE LET h == Head(copy)
           rest == Tail(copy)
       IN DeleteElements_SkipsNext(
            IF rest = << >> THEN rest ELSE Tail(rest),
            [ list    |-> ListRemove(state.list, h),
              deleted |-> Append(state.deleted, h) ])

\* Faulty variant of DeleteElements: the hosts are freed without their
\* destructor taking them out of the live list.
RECURSIVE DeleteElements_LeavesList(_, _)
DeleteElements_LeavesList(copy, state) ==
  IF copy = << >> THEN state
  ELSE DeleteElements_LeavesList(Tail(copy),
         [ list    |-> state.list,
           deleted |-> Append(state.deleted, Head(copy)) ])

\* STLDeleteElements(&copy): deletes the hosts of `copy` in list order;
\* every destructor removes its host from the live list.
RECURSIVE DeleteElements(_, _)
DeleteElements(copy, state) ==
  IF copy = << >> THEN state
  ELSE LET h == Head(copy) IN
       DeleteElements(Tail(copy),
         [ list    |-> ListRemove(state.list, h),
           deleted |-> Append(state.deleted, h) ])

\* BrowserChildProcessHost::TerminateAll
TerminateAll ==
  LET copy == g_child_process_list
      end == DeleteElements(copy, [list |-> g_child_process_list,
                                   deleted |-> << >>])
      gone == Elements(end.deleted)
  IN
  /\ copy # << >>
  /\ g_child_process_list' = end.list
  /\ life' = [h \in Hosts |-> IF h \in gone THEN "deleted" ELSE life[h]]
  /\ data_' = [h \in Hosts |-> IF h \in gone THEN NoData ELSE data_[h]]
  /\ child_process_' =
       [h \in Hosts |-> IF h \in gone THEN NoLauncher ELSE child_process_[h]]
  /\ disconnect_was_alive_' =
       [h \in Hosts |-> IF h \in gone THEN FALSE ELSE disconnect_was_alive_[h]]
  /\ child_watcher_' =
       [h \in Hosts |-> IF h \in gone THEN NotWatching ELSE child_watcher_[h]]
  /\ channel' = [h \in Hosts |-> IF h \in gone THEN NoChannel ELSE channel[h]]
  /\ log' = [h \in Hosts |->
               IF h \in gone
                 THEN log[h] \o << [e |-> "TerminateAll"] >>
                      \o [i \in 1..Cardinality({j \in 1..Len(end.deleted) :
                                                  end.deleted[j] = h})
                            |-> DeleteThis]
                 ELSE log[h]]
  /\ UNCHANGED << elsewhere, platform, delayed_tasks, os, histograms, ui_tasks,
                  ui_delivered, delegate_ >>

\* The owner deletes the host (delete host; the destructor runs).
Delete(h) ==
  /\ life[h] = "alive"
  /\ Destructor(h)
  /\ Effects(h, << [e |-> "~BrowserChildProcessHost"], DeleteThis >>)
  /\ UNCHANGED << elsewhere, platform, delayed_tasks, os, ui_delivered, delegate_ >>

\* ------------------------------------------------------- the environment

\* The process of handle p exits.
ProcessExits(p, how) ==
  /\ os[p] = "STILL_RUNNING"
  /\ os' = [os EXCEPT ![p] = how]
  /\ UNCHANGED << elsewhere, platform, members, delayed_tasks, g_child_process_list,
                  outputs, ui_delivered, delegate_ >>

\* Faulty variant of RunUITask: the task is bound to a reference to data_
\* of its host and reads it when it runs.
RunUITask_ReadsHost ==
  /\ ui_tasks # << >>
  /\ ui_delivered' =
       Append(ui_delivered,
              [type |-> Head(ui_tasks).type,
               data |-> data_[Head(ui_tasks).data.id]])
  /\ ui_tasks' = Tail(ui_tasks)
  /\ UNCHANGED << elsewhere, platform, members, delayed_tasks, g_child_process_list,
                  os, histograms, log, delegate_ >>

\* Faulty variant of RunUITask: the observer of the notification also
\* takes the host of the notification out of g_child_process_list, from
\* the UI thread.
RunUITask_UnregistersHost ==
  /\ ui_tasks # << >>
  /\ ui_delivered' = Append(ui_delivered, Head(ui_tasks))
  /\ ui_tasks' = Tail(ui_tasks)
  /\ g_child_process_list' =
       ListRemove(g_child_process_list, Head(ui_tasks).data.id)
  /\ UNCHANGED << elsewhere, platform, members, delayed_tasks, os, histograms, log,
                  delegate_ >>

\* The UI thread runs the next posted task: ChildNotificationHelper(type,
\* data) with the copy of data_ bound into the task.
RunUITask ==
  /\ ui_tasks # << >>
  /\ ui_delivered' = Append(ui_delivered, Head(ui_tasks))
  /\ ui_tasks' = Tail(ui_tasks)
  /\ UNCHANGED << elsewhere, platform, members, delayed_tasks, g_child_process_list,
                  os, histograms, log, delegate_ >>

\* ------------------------------------------------------------------ Next

\* The IO thread: every handler of the host, the owner's calls, and the
\* child process exiting.  SetName and RunUITask are not steps of this
\* specification: the name and the delivery of a posted task are read by
\* no handler, so they change no decision a handler takes.
Next ==
  \/ \E h \in Followed, type \in ProcessTypes : Constructor(h, type)
  \/ \E h \in Hosts : Launch(h)
  \/ \E h \in Hosts, handle \in Handles \cup {kNullProcessHandle} :
       OnProcessLaunched(h, handle)
  \/ \E h \in Hosts, handle \in Handles : SetHandle(h, handle)
  \/ \E h \in Hosts : ForceShutdown(h)
  \/ \E h \in Hosts : ShutdownStarted(h)
  \/ \E h \in Hosts : OnChannelConnected(h)
  \/ \E h \in Hosts : OnChannelError(h)
  \/ \E h \in Hosts : ChildDisconnected(h)
  \/ \E h \in Hosts : RunDelayedTask(h)
  \/ \E h \in Hosts, exit_code \in ExitCodes :
       OnWaitableEventSignaled(h, exit_code)
  \/ TerminateAll
  \/ \E h \in Hosts : Delete(h)
  \/ \E p \in Handles, how \in Exited : ProcessExits(p, how)

Spec == Init /\ [][Next]_vars

\* The notifications of the followed host, from the IO thread to the UI
\* thread: the handlers that call Notify, the calls that change data_, the
\* ways the host is destroyed, and the UI thread running the posted tasks.
UINext ==
  \/ \E h \in Followed, type \in ProcessTypes : Constructor(h, type)
  \/ \E h \in Hosts, name \in Names : SetName(h, name)
  \/ \E h \in Hosts, handle \in Handles : SetHandle(h, handle)
  \/ \E h \in Hosts : OnChannelConnected(h)
  \/ \E h \in Hosts : ChildDisconnected(h)
  \/ \E h \in Hosts : RunDelayedTask(h)
  \/ \E h \in Hosts, exit_code \in ExitCodes :
       OnWaitableEventSignaled(h, exit_code)
  \/ \E h \in Hosts : Delete(h)
  \/ \E p \in Handles, how \in Exited : ProcessExits(p, how)
  \/ RunUITask

UISpec == Init /\ [][UINext]_vars

\* The list with every host: construction, launch, the two removals, and
\* the three ways a host is destroyed here (failed launch, its owner,
\* TerminateAll).
RegistryNext ==
  \/ \E h \in Hosts, type \in ProcessTypes : Constructor(h, type)
  \/ \E h \in Hosts : Launch(h)
  \/ \E h \in Hosts, handle \in Handles \cup {kNullProcessHandle} :
       OnProcessLaunched(h, handle)
  \/ \E h \in Hosts : ForceShutdown(h)
  \/ \E h \in Hosts : ShutdownStarted(h)
  \/ \E h \in Hosts : Delete(h)
  \/ TerminateAll

RegistrySpec == Init /\ [][RegistryNext]_vars

\* The process handle of data_: the callers that give a host its handle,
\* with every base::ProcessHandle as the argument of SetHandle.
HandleNext ==
  \/ \E h \in Hosts, type \in ProcessTypes : Constructor(h, type)
  \/ \E h \in Hosts : Launch(h)
  \/ \E h \in Hosts, handle \in Handles \cup {kNullProcessHandle} :
       OnProcessLaunched(h, handle)
  \/ \E h \in Hosts, handle \in Handles \cup {kNullProcessHandle} :
       SetHandle(h, handle)
  \/ \E h \in Hosts : Delete(h)

HandleSpec == Init /\ [][HandleNext]_vars

\* The termination status of a host asked for by a caller: the ways a host
\* gets its handle, with or without the launcher, the process exiting, and
\* the query.
StatusNext ==
  \/ \E h \in Followed, type \in ProcessTypes : Constructor(h, type)
  \/ \E h \in Hosts : Launch(h)
  \/ \E h \in Hosts, handle \in Handles \cup {kNullProcessHandle} :
       OnProcessLaunched(h, handle)
  \/ \E h \in Hosts, handle \in Handles \cup {kNullProcessHandle} :
       SetHandle(h, handle)
  \/ \E p \in Handles, how \in Exited : ProcessExits(p, how)
  \/ \E h \in Hosts : CallGetTerminationStatus(h)
  \/ \E h \in Hosts : Delete(h)

StatusSpec == Init /\ [][StatusNext]_vars

\* The histograms with every host: hosts that are given their handle and
\* are disconnected, each with its re-check, while the processes exit.
CounterNext ==
  \/ \E h \in Hosts, type \in ProcessTypes : Constructor(h, type)
  \/ \E h \in Hosts, handle \in Handles : SetHandle(h, handle)
  \/ \E h \in Hosts : ChildDisconnected(h)
  \/ \E h \in Hosts : RunDelayedTask(h)
  \/ \E h \in Hosts, exit_code \in ExitCodes :
       OnWaitableEventSignaled(h, exit_code)
  \/ \E p \in Handles, how \in Exited : ProcessExits(p, how)

CounterSpec == Init /\ [][CounterNext]_vars

\* The same with the scheduling of the IO thread: the message loop runs a
\* delayed task that is due, and the object watcher calls back once the
\* watched handle is signaled.  Nothing makes a child process exit.
FairSpec ==
  /\ Spec
  /\ \A h \in Hosts : WF_vars(RunDelayedTask(h))
  /\ \A h \in Hosts :
       WF_vars(\E exit_code \in ExitCodes : OnWaitableEventSignaled(h, exit_code))

\* ------------------------------------------------------ the X11 player

\* The while (XPending) loop of PeriodicalUpdate on the waiting events:
\* the playback rate it leaves, whether it met Escape, and the events it
\* did not consume (those after Escape).
RECURSIVE ConsumeEvents(_, _)
ConsumeEvents(events, rate) ==
  IF events = << >> THEN [escape |-> FALSE, rate |-> rate, rest |-> << >>]
  ELSE LET e == Head(events) IN
       IF e = "Escape"
         THEN [escape |-> TRUE, rate |-> rate, rest |-> Tail(events)]
       ELSE IF e = "Space"
         THEN ConsumeEvents(Tail(events), IF rate = 0 THEN 1 ELSE 0)
       ELSE ConsumeEvents(Tail(events), rate)

\* pipeline->Stop(callback): the pipeline owes one more stop callback.
PipelineStop(pl) == [pl EXCEPT !.stops = @ + 1, !.owed = @ + 1]

\* main: InitPipeline succeeds, g_running = true, the first
\* PeriodicalUpdate is posted and the loop runs.
InitPipelineOk ==
  /\ main_pc = "InitPipeline"
  /\ main_pc' = "Run"
  /\ pipeline' = [pipeline EXCEPT !.rate = 1]
  /\ g_running' = TRUE
  /\ message_loop' = Append(message_loop, "PeriodicalUpdate")
  /\ UNCHANGED << delayed_update, x_events, signals, not_player >>

\* main: InitPipeline fails; it has stopped the pipeline with an empty
\* callback, and main goes on to the cleanup.
InitPipelineFails ==
  /\ main_pc = "InitPipeline"
  /\ main_pc' = "Cleanup"
  /\ pipeline' = [pipeline EXCEPT !.stops = @ + 1]
  /\ UNCHANGED << g_running, message_loop, delayed_update, x_events, signals,
                  not_player >>

\* TerminateHandler(signal)
TerminateHandler ==
  /\ main_pc # "Exited"
  /\ signals < MaxSignals
  /\ signals' = signals + 1
  /\ g_running' = FALSE
  /\ UNCHANGED << main_pc, message_loop, delayed_update, x_events, pipeline,
                  not_player >>

\* The X server queues an event for the window.
XEventArrives(e) ==
  /\ main_pc \in { "InitPipeline", "Run" }
  /\ Len(x_events) < MaxEvents
  /\ x_events' = Append(x_events, e)
  /\ UNCHANGED << g_running, main_pc, message_loop, delayed_update, pipeline,
                  signals, not_player >>

\* Faulty variant of PeriodicalUpdate: the return after pipeline->Stop is
\* missing in the !g_running branch, so the events are consumed and the
\* task posts itself again.
PeriodicalUpdate_NoReturn ==
  /\ main_pc = "Run"
  /\ message_loop # << >> /\ Head(message_loop) = "PeriodicalUpdate"
  /\ message_loop' = Tail(message_loop)
  /\ LET r == ConsumeEvents(x_events, pipeline.rate)
         stopped == IF g_running THEN pipeline ELSE PipelineStop(pipeline)
     IN /\ x_events' = r.rest
        /\ IF r.escape
             THEN /\ g_running' = FALSE
                  /\ pipeline' = PipelineStop([stopped EXCEPT !.rate = r.rate])
                  /\ UNCHANGED delayed_update
             ELSE /\ pipeline' = [stopped EXCEPT !.rate = r.rate]
                  /\ delayed_update' = delayed_update + 1
                  /\ UNCHANGED g_running
  /\ UNCHANGED << main_pc, signals, not_player >>

\* The loop runs PeriodicalUpdate(pipeline, message_loop, audio_only).
PeriodicalUpdate ==
  /\ main_pc = "Run"
  /\ message_loop # << >> /\ Head(message_loop) = "PeriodicalUpdate"
  /\ message_loop' = Tail(message_loop)
  /\ IF ~g_running
       THEN /\ pipeline' = PipelineStop(pipeline)
            /\ UNCHANGED << g_running, x_events, delayed_update >>
       ELSE LET r == ConsumeEvents(x_events, pipeline.rate) IN
            /\ x_events' = r.rest
            /\ IF r.escape
                 THEN /\ g_running' = FALSE
                      /\ pipeline' =
                           PipelineStop([pipeline EXCEPT !.rate = r.rate])
                      /\ UNCHANGED delayed_update
                 ELSE /\ pipeline' = [pipeline EXCEPT !.rate = r.rate]
                      /\ delayed_update' = delayed_update + 1
                      /\ UNCHANGED g_running
  /\ UNCHANGED << main_pc, signals, not_player >>

\* The delay of a PostDelayedTask is over: the loop queues the task.
DelayElapses ==
  /\ main_pc = "Run"
  /\ delayed_update > 0
  /\ delayed_update' = delayed_update - 1
  /\ message_loop' = Append(message_loop, "PeriodicalUpdate")
  /\ UNCHANGED << g_running, main_pc, x_events, pipeline, signals,
                  not_player >>

\* Faulty variant of QuitterQuit: the quitter deletes itself and posts
\* nothing.
QuitterQuit_NoPost ==
  /\ pipeline.owed > 0
  /\ pipeline' = [pipeline EXCEPT !.owed = @ - 1]
  /\ UNCHANGED << g_running, main_pc, message_loop, delayed_update, x_events,
                  signals, not_player >>

\* The pipeline has stopped and runs the callback of Stop:
\* MessageLoopQuitter::Quit posts the QuitClosure to the loop.
QuitterQuit ==
  /\ pipeline.owed > 0
  /\ pipeline' = [pipeline EXCEPT !.owed = @ - 1]
  /\ message_loop' = Append(message_loop, "Quit")
  /\ UNCHANGED << g_running, main_pc, delayed_update, x_events, signals,
                  not_player >>

\* The loop runs the QuitClosure: message_loop.Run() returns.
QuitClosure ==
  /\ main_pc = "Run"
  /\ message_loop # << >> /\ Head(message_loop) = "Quit"
  /\ message_loop' = Tail(message_loop)
  /\ main_pc' = "Cleanup"
  /\ UNCHANGED << g_running, delayed_update, x_events, pipeline, signals,
                  not_player >>

\* main: the cleanup tasks, and return.
Cleanup ==
  /\ main_pc = "Cleanup"
  /\ main_pc' = "Exited"
  /\ UNCHANGED << g_running, message_loop, delayed_update, x_events, pipeline,
                  signals, not_player >>

PlayerNext ==
  \/ InitPipelineOk
  \/ InitPipelineFails
  \/ TerminateHandler
  \/ \E e \in XEvents : XEventArrives(e)
  \/ PeriodicalUpdate
  \/ DelayElapses
  \/ QuitterQuit
  \/ QuitClosure
  \/ Cleanup

PlayerSpec == Init /\ [][PlayerNext]_vars

\* The same with the scheduling: the loop runs the tasks it holds and
\* queues a delayed task when its delay is over, and the pipeline runs the
\* callback of every Stop.
PlayerFairSpec ==
  /\ PlayerSpec
  /\ WF_vars(PeriodicalUpdate)
  /\ WF_vars(DelayElapses)
  /\ WF_vars(QuitterQuit)
  /\ WF_vars(QuitClosure)

\* ------------------------------------------ the remoting host plugin

\* NP_Initialize(npnetscape_funcs): the three refusals in the order of the
\* code, then the two globals are set.
NP_InitializeResult(funcs) ==
  IF g_at_exit_manager THEN "NPERR_MODULE_LOAD_FAILED_ERROR"
  ELSE IF funcs = 0 THEN "NPERR_INVALID_FUNCTABLE_ERROR"
  ELSE IF ((TableVersion(funcs) % 65536) \div 256) % 256 > NP_VERSION_MAJOR
    THEN "NPERR_INCOMPATIBLE_VERSION_ERROR"
  ELSE "NPERR_NO_ERROR"

NP_Initialize(funcs) ==
  /\ Len(np_calls) < MaxNPCalls
  /\ LET err == NP_InitializeResult(funcs) IN
       /\ np_calls' = Append(np_calls, [fn |-> "NP_Initialize",
                                        arg |-> funcs, err |-> err])
       /\ IF err = "NPERR_NO_ERROR"
            THEN /\ g_at_exit_manager' = TRUE
                 /\ g_npnetscape_funcs' = funcs
            ELSE UNCHANGED << g_at_exit_manager, g_npnetscape_funcs >>
  /\ UNCHANGED << object_vars, not_plugin >>

\* NP_Shutdown that deletes the manager and keeps the pointer.
NP_Shutdown_KeepsPointer ==
  /\ Len(np_calls) < MaxNPCalls
  /\ np_calls' = Append(np_calls, [fn |-> "NP_Shutdown", arg |-> 0,
                                   err |-> "NPERR_NO_ERROR"])
  /\ UNCHANGED << g_at_exit_manager, g_npnetscape_funcs, object_vars,
                  not_plugin >>

NP_Shutdown ==
  /\ Len(np_calls) < MaxNPCalls
  /\ np_calls' = Append(np_calls, [fn |-> "NP_Shutdown", arg |-> 0,
                                   err |-> "NPERR_NO_ERROR"])
  /\ g_at_exit_manager' = FALSE
  /\ UNCHANGED << g_npnetscape_funcs, object_vars, not_plugin >>

ModuleNext ==
  \/ \E funcs \in FuncTables \cup { 0 } : NP_Initialize(funcs)
  \/ NP_Shutdown

ModuleSpec == Init /\ [][ModuleNext]_vars

\* The threads OnStateChanged is called on: the plugin thread, the main
\* thread and the network thread of host_context_.
Threads == { "np", "main", "network" }

\* The values of enum State that the object passes to OnStateChanged.
States ==
  { "kDisconnected", "kRequestedAccessCode", "kReceivedAccessCode",
    "kConnected" }

ScriptState ==
  [state_ |-> state_, tasks |-> np_tasks, js |-> js_calls,
   writer |-> state_writer]

SetScriptState(r) ==
  /\ state_' = r.state_
  /\ np_tasks' = r.tasks
  /\ js_calls' = r.js
  /\ state_writer' = r.writer

\* OnStateChanged that writes on whichever thread calls it.
OnStateChanged_AnyThread(cur, thread, state) ==
  IF destructing_ THEN cur
  ELSE [cur EXCEPT !.state_ = state,
                   !.writer = thread,
                   !.js = IF on_state_changed_func_ THEN 1 - @ ELSE @]

\* HostNPScriptObject::OnStateChanged(state) called on `thread`, as a
\* function of what it reads and writes.
OnStateChanged(cur, thread, state) ==
  IF destructing_ THEN cur
  ELSE IF thread # "np" THEN [cur EXCEPT !.tasks = Append(@, state)]
  ELSE [cur EXCEPT !.state_ = state,
                   !.writer = thread,
                   !.js = IF on_state_changed_func_ THEN 1 - @ ELSE @]

\* connect(uid, token) from the script; args_ok is whether the argument
\* checks pass.
Connect(args_ok) ==
  /\ np_pc = "Alive"
  /\ connects < MaxConnects
  /\ Len(main_message_loop) < MaxMainTasks
  /\ IF args_ok
       THEN /\ main_message_loop' = Append(main_message_loop, "ConnectInternal")
            /\ connects' = connects + 1
       ELSE UNCHANGED << main_message_loop, connects >>
  /\ UNCHANGED << np_pc, destructing_, disconnected_event_, host_, shutting,
                  failed_login_attempts_, denied_here, script_vars,
                  on_state_changed_func_, module_vars, not_plugin >>

\* disconnect() from the script.
Disconnect(args_ok) ==
  /\ np_pc = "Alive"
  /\ Len(main_message_loop) < MaxMainTasks
  /\ shutting < MaxShutdowns
  /\ IF args_ok
       THEN main_message_loop' =
              Append(main_message_loop, "DisconnectInternal")
       ELSE UNCHANGED main_message_loop
  /\ UNCHANGED << np_pc, destructing_, disconnected_event_, host_, shutting,
                  failed_login_attempts_, denied_here, connects, script_vars,
                  on_state_changed_func_, module_vars, not_plugin >>

\* The script sets the onStateChanged attribute to a function.
SetProperty ==
  /\ np_pc = "Alive"
  /\ ~on_state_changed_func_
  /\ on_state_changed_func_' = TRUE
  /\ UNCHANGED << np_pc, destructing_, disconnected_event_, host_, shutting,
                  main_message_loop, failed_login_attempts_, denied_here,
                  connects, script_vars, module_vars, not_plugin >>

\* The main thread runs ConnectInternal; init_ok is the result of
\* register_request->Init.
ConnectInternal(init_ok) ==
  /\ np_pc # "Destroyed"
  /\ main_message_loop # << >>
  /\ Head(main_message_loop) = "ConnectInternal"
  /\ main_message_loop' = Tail(main_message_loop)
  /\ IF init_ok
       THEN /\ host_' = connects
                        - Len(SelectSeq(Tail(main_message_loop),
                                        LAMBDA t : t = "ConnectInternal"))
            /\ denied_here' = 0
            /\ SetScriptState(
                 OnStateChanged(ScriptState, "main", "kRequestedAccessCode"))
       ELSE /\ UNCHANGED << host_, denied_here >>
            /\ SetScriptState(
                 OnStateChanged(ScriptState, "main", "kDisconnected"))
  /\ UNCHANGED << np_pc, destructing_, disconnected_event_, shutting,
                  failed_login_attempts_, connects, on_state_changed_func_,
                  module_vars, not_plugin >>

\* The main thread runs DisconnectInternal.
DisconnectInternal ==
  /\ np_pc # "Destroyed"
  /\ main_message_loop # << >>
  /\ Head(main_message_loop) = "DisconnectInternal"
  /\ main_message_loop' = Tail(main_message_loop)
  /\ IF host_ = 0
       THEN /\ disconnected_event_' = TRUE
            /\ UNCHANGED shutting
       ELSE /\ shutting' = shutting + 1
            /\ UNCHANGED disconnected_event_
  /\ UNCHANGED << np_pc, destructing_, host_, failed_login_attempts_,
                  denied_here, connects, script_vars, on_state_changed_func_,
                  module_vars, not_plugin >>

\* A ChromotingHost finishes a Shutdown and posts the task it was given.
ShutdownCompletes ==
  /\ np_pc # "Destroyed"
  /\ shutting > 0
  /\ shutting' = shutting - 1
  /\ main_message_loop' = Append(main_message_loop, "OnShutdownFinished")
  /\ UNCHANGED << np_pc, destructing_, disconnected_event_, host_,
                  failed_login_attempts_, denied_here, connects, script_vars,
                  on_state_changed_func_, module_vars, not_plugin >>

OnShutdownFinished ==
  /\ np_pc # "Destroyed"
  /\ main_message_loop # << >>
  /\ Head(main_message_loop) = "OnShutdownFinished"
  /\ main_message_loop' = Tail(main_message_loop)
  /\ host_' = 0
  /\ disconnected_event_' = TRUE
  /\ UNCHANGED << np_pc, destructing_, shutting, failed_login_attempts_,
                  denied_here, connects, script_vars, on_state_changed_func_,
                  module_vars, not_plugin >>

\* The host denies a login, on the network thread.
OnAccessDenied ==
  /\ np_pc # "Destroyed"
  /\ host_ # 0
  /\ failed_login_attempts_ < MaxDenied
  /\ failed_login_attempts_' = failed_login_attempts_ + 1
  /\ denied_here' = denied_here + 1
  /\ IF failed_login_attempts_ + 1 = kMaxLoginAttempts
       THEN main_message_loop' =
              Append(main_message_loop, "DisconnectInternal")
       ELSE UNCHANGED main_message_loop
  /\ UNCHANGED << np_pc, destructing_, disconnected_event_, host_, shutting,
                  connects, script_vars, on_state_changed_func_, module_vars,
                  not_plugin >>

\* The host reports its signalling connection, on the network thread.
OnSignallingConnected ==
  /\ np_pc # "Destroyed"
  /\ host_ # 0
  /\ Len(np_tasks) < MaxNPTasks
  /\ SetScriptState(OnStateChanged(ScriptState, "network", "kConnected"))
  /\ UNCHANGED << np_pc, destructing_, disconnected_event_, host_, shutting,
                  main_message_loop, failed_login_attempts_, denied_here,
                  connects, on_state_changed_func_, module_vars, not_plugin >>

\* The registration request answers, on a thread that is not the plugin
\* thread: a failure disconnects, a success reports the access code.
OnReceivedSupportID(success) ==
  /\ np_pc # "Destroyed"
  /\ host_ # 0
  /\ Len(np_tasks) < MaxNPTasks
  /\ Len(main_message_loop) < MaxMainTasks
  /\ shutting < MaxShutdowns
  /\ IF success
       THEN /\ SetScriptState(
                 OnStateChanged(ScriptState, "network", "kReceivedAccessCode"))
            /\ UNCHANGED main_message_loop
       ELSE /\ main_message_loop' =
                 Append(main_message_loop, "DisconnectInternal")
            /\ UNCHANGED script_vars
  /\ UNCHANGED << np_pc, destructing_, disconnected_event_, host_, shutting,
                  failed_login_attempts_, denied_here, connects,
                  on_state_changed_func_, module_vars, not_plugin >>

\* A host that is shutting down tells its observers, on the main thread.
OnShutdown ==
  /\ np_pc # "Destroyed"
  /\ shutting > 0
  /\ Len(np_tasks) < MaxNPTasks
  /\ SetScriptState(OnStateChanged(ScriptState, "main", "kDisconnected"))
  /\ UNCHANGED << np_pc, destructing_, disconnected_event_, host_, shutting,
                  main_message_loop, failed_login_attempts_, denied_here,
                  connects, on_state_changed_func_, module_vars, not_plugin >>

\* The browser runs a task given to pluginthreadasynccall, on the plugin
\* thread, which is free only while no call of the script object runs.
NPTaskSpringboard ==
  /\ np_pc = "Alive"
  /\ np_tasks # << >>
  /\ SetScriptState(
       OnStateChanged([ScriptState EXCEPT !.tasks = Tail(@)], "np",
                      Head(np_tasks)))
  /\ UNCHANGED << np_pc, destructing_, disconnected_event_, host_, shutting,
                  main_message_loop, failed_login_attempts_, denied_here,
                  connects, on_state_changed_func_, module_vars, not_plugin >>

\* ~HostNPScriptObject up to disconnected_event_.Wait().
ScriptObjectDestructor ==
  /\ np_pc = "Alive"
  /\ np_pc' = "Waiting"
  /\ destructing_' = TRUE
  /\ disconnected_event_' = FALSE
  /\ main_message_loop' = Append(main_message_loop, "DisconnectInternal")
  /\ UNCHANGED << host_, shutting, failed_login_attempts_, denied_here,
                  connects, script_vars, on_state_changed_func_, module_vars,
                  not_plugin >>

\* disconnected_event_.Wait() returns and the destructor stops the threads
\* of host_context_.
WaitReturns ==
  /\ np_pc = "Waiting"
  /\ disconnected_event_
  /\ np_pc' = "Destroyed"
  /\ UNCHANGED << destructing_, disconnected_event_, host_, shutting,
                  main_message_loop, failed_login_attempts_, denied_here,
                  connects, script_vars, on_state_changed_func_, module_vars,
                  not_plugin >>

PluginNext ==
  \/ \E args_ok \in BOOLEAN : Connect(args_ok)
  \/ \E args_ok \in BOOLEAN : Disconnect(args_ok)
  \/ SetProperty
  \/ \E init_ok \in BOOLEAN : ConnectInternal(init_ok)
  \/ DisconnectInternal
  \/ ShutdownCompletes
  \/ OnShutdownFinished
  \/ OnSignallingConnected
  \/ \E success \in BOOLEAN : OnReceivedSupportID(success)
  \/ OnShutdown
  \/ NPTaskSpringboard
  \/ ScriptObjectDestructor
  \/ WaitReturns

PluginSpec == Init /\ [][PluginNext]_vars

\* The connections of a script object and the logins they deny.
LoginNext ==
  \/ \E args_ok \in BOOLEAN : Connect(args_ok)
  \/ \E init_ok \in BOOLEAN : ConnectInternal(init_ok)
  \/ OnAccessDenied
  \/ DisconnectInternal
  \/ ShutdownCompletes
  \/ OnShutdownFinished
  \/ NPTaskSpringboard

LoginSpec == Init /\ [][LoginNext]_vars

\* The message loops run their tasks, a host finishes a shutdown it was
\* asked for, and a signaled event wakes its waiter.
PluginFairSpec ==
  /\ PluginSpec
  /\ WF_vars(\E init_ok \in BOOLEAN : ConnectInternal(init_ok))
  /\ WF_vars(DisconnectInternal)
  /\ WF_vars(ShutdownCompletes)
  /\ WF_vars(OnShutdownFinished)
  /\ WF_vars(WaitReturns)

\* ---------------------------------------------- the panel layout manager

\* The x of the middle of the launcher icon of a window, in the coordinates
\* of the container.
IconCentre(w) == 2 * w

\* What the callbacks of a layout pass may find: the windows that are
\* visible and have an icon in the launcher.
LayoutInputs == SUBSET Windows

\* The index of window w in a list, or Len + 1 when it is not there
\* (std::find).
RECURSIVE Find(_, _)
Find(list, w) ==
  IF list = << >> \/ Head(list) = w THEN 1 ELSE 1 + Find(Tail(list), w)

\* The list without its element at index i.
Erase(list, i) ==
  [k \in 1..(Len(list) - 1) |-> IF k < i THEN list[k] ELSE list[k + 1]]

\* The list with w put before the element at index i (at the end for
\* i = Len + 1).
Insert(list, i, w) ==
  [k \in 1..(Len(list) + 1) |->
     IF k < i THEN list[k] ELSE IF k = i THEN w ELSE list[k - 1]]

\* The first index whose panel has its middle at or left of x, or Len + 1.
RECURSIVE NewPosition(_, _, _)
NewPosition(list, bounds, x) ==
  IF list = << >> THEN 1
  ELSE IF bounds[Head(list)].x + bounds[Head(list)].width \div 2 <= x
    THEN 1
  ELSE 1 + NewPosition(Tail(list), bounds, x)

\* Repositioning that inserts the dragged panel and does not erase it.
Reposition_InsertOnly(list, bounds, dragged, x) ==
  LET at == Find(list, dragged)
      to == NewPosition(list, bounds, x)
  IN  IF to # at THEN Insert(list, to, dragged) ELSE list

\* SetChildBounds, "Reposition dragged panel in the panel order": the
\* iterator new_position stays on its element while the dragged panel is
\* erased from the list.
Reposition(list, bounds, dragged, x) ==
  LET at == Find(list, dragged)
      to == NewPosition(list, bounds, x)
  IN  IF to # at
        THEN Insert(Erase(list, at), IF to > at THEN to - 1 ELSE to, dragged)
        ELSE list

\* The loop of Relayout: every panel of the list that is visible, has an
\* icon and is not dragged is put above its icon.
LayoutPass(bounds, list, dragged, laid_out) ==
  [w \in Windows |->
     IF /\ \E i \in 1..Len(list) : list[i] = w
        /\ w \in laid_out
        /\ w # dragged
       THEN [bounds[w] EXCEPT !.x = IconCentre(w) - bounds[w].width \div 2]
       ELSE bounds[w]]

RECURSIVE Relayout(_, _, _, _, _)

\* Relayout without the test of in_layout_.
Relayout_NoGuard(st, list, dragged, laid_out, reenter) ==
  LET pass == [st EXCEPT !.in_layout_ = TRUE,
                         !.bounds = LayoutPass(@, list, dragged, laid_out)]
      after == IF reenter > 0
                 THEN Relayout(pass, list, dragged, laid_out, reenter - 1)
                 ELSE pass
  IN  [after EXCEPT !.in_layout_ = st.in_layout_, !.passes = @ + 1]

\* PanelLayoutManager::Relayout on the state st = [in_layout_, bounds,
\* passes, reentered]; reenter is how many times the callbacks of the pass
\* call Relayout again.
Relayout(st, list, dragged, laid_out, reenter) ==
  IF st.in_layout_ THEN [st EXCEPT !.reentered = @ + 1]
  ELSE
    LET pass == [st EXCEPT !.in_layout_ = TRUE,
                           !.bounds = LayoutPass(@, list, dragged, laid_out)]
        after == IF reenter > 0
                   THEN Relayout(pass, list, dragged, laid_out, reenter - 1)
                   ELSE pass
    IN  [after EXCEPT !.in_layout_ = st.in_layout_, !.passes = @ + 1]

\* A handler ends with Relayout(): the bounds are those of the handler so
\* far, the list and the dragged panel those it has set.
CallRelayout(bounds, list, dragged, laid_out, reenter) ==
  LET st == Relayout([in_layout_ |-> in_layout_, bounds |-> bounds,
                      passes |-> 0, reentered |-> 0],
                     list, dragged, laid_out, reenter)
  IN  /\ in_layout_' = st.in_layout_
      /\ panel_bounds' = st.bounds
      /\ layout_passes' = st.passes
      /\ reentered' = st.reentered

\* The windows in a list.
Range(list) == { list[i] : i \in 1..Len(list) }

\* The container gets a child.
OnWindowAddedToLayout(child, laid_out, reenter) ==
  /\ child \notin Range(children)
  /\ children' = Append(children, child)
  /\ panel_windows_' = Append(panel_windows_, child)
  /\ CallRelayout(panel_bounds, panel_windows_', dragged_panel_, laid_out,
                  reenter)
  /\ UNCHANGED << dragged_panel_, not_panel >>

\* The container is about to lose a child, or is told so of a window it
\* does not hold.
OnWillRemoveWindowFromLayout(child, laid_out, reenter) ==
  /\ LET found == Find(panel_windows_, child) IN
       panel_windows_' = IF found # Len(panel_windows_) + 1
                           THEN Erase(panel_windows_, found)
                           ELSE panel_windows_
  /\ dragged_panel_' = IF dragged_panel_ = child THEN 0 ELSE dragged_panel_
  /\ children' = SelectSeq(children, LAMBDA w : w # child)
  /\ CallRelayout([panel_bounds EXCEPT ![child] = NewBounds],
                  panel_windows_', dragged_panel_', laid_out, reenter)
  /\ UNCHANGED not_panel

StartDragging(panel) ==
  /\ dragged_panel_ = 0
  /\ panel \in Range(children)
  /\ dragged_panel_' = panel
  /\ layout_passes' = 0
  /\ reentered' = 0
  /\ UNCHANGED << panel_windows_, in_layout_, panel_bounds, children,
                  not_panel >>

FinishDragging(laid_out, reenter) ==
  /\ dragged_panel_ # 0
  /\ dragged_panel_' = 0
  /\ CallRelayout(panel_bounds, panel_windows_, 0, laid_out, reenter)
  /\ UNCHANGED << panel_windows_, children, not_panel >>

\* SetChildBounds(child, requested_bounds) for a child of the container.
SetChildBounds(child, x, width, laid_out, reenter) ==
  /\ child \in Range(children)
  /\ LET max_width == (RootWidth * 50) \div 100
         bounds == [x |-> x,
                    width |-> IF width > max_width THEN max_width ELSE width]
     IN  /\ panel_windows_' =
              IF dragged_panel_ = child
                THEN Reposition(panel_windows_, panel_bounds, dragged_panel_,
                                x)
                ELSE panel_windows_
         /\ CallRelayout([panel_bounds EXCEPT ![child] = bounds],
                         panel_windows_', dragged_panel_, laid_out, reenter)
  /\ UNCHANGED << dragged_panel_, children, not_panel >>

\* OnWindowResized, OnChildWindowVisibilityChanged and
\* OnLauncherIconPositionsChanged: each is a call of Relayout.
OnWindowResized(laid_out, reenter) ==
  /\ CallRelayout(panel_bounds, panel_windows_, dragged_panel_, laid_out,
                  reenter)
  /\ UNCHANGED << panel_windows_, dragged_panel_, children, not_panel >>

PanelNext ==
  \/ \E child \in Windows, laid_out \in LayoutInputs, reenter \in 0..MaxReenter :
       OnWindowAddedToLayout(child, laid_out, reenter)
  \/ \E child \in Windows, laid_out \in LayoutInputs, reenter \in 0..MaxReenter :
       OnWillRemoveWindowFromLayout(child, laid_out, reenter)
  \/ \E panel \in Windows : StartDragging(panel)
  \/ \E laid_out \in LayoutInputs, reenter \in 0..MaxReenter :
       FinishDragging(laid_out, reenter)
  \/ \E child \in Windows, x \in 0..MaxX, width \in { 2, RootWidth },
        laid_out \in LayoutInputs, reenter \in 0..MaxReenter :
       SetChildBounds(child, x, width, laid_out, reenter)
  \/ \E laid_out \in LayoutInputs, reenter \in 0..MaxReenter :
       OnWindowResized(laid_out, reenter)

PanelSpec == Init /\ [][PanelNext]_vars

\* ------------------------------------------------- reading the log

Crashes == { "PROCESS_CRASHED", "ABNORMAL_TERMINATION" }

IsNotify(e, type) == e.e = "Notify" /\ e.type = type
IsSample(e, name) == e.e = "UMA" /\ e.name = name
IsOnChildDisconnected(e) == e.e = "OnChildDisconnected"
IsSchedule(e) == e.e \in { "StartWatching", "PostDelayedTask" }

\* The positions of a host's log whose entry passes Test.
Positions(h, Test(_)) == { i \in 1..Len(log[h]) : Test(log[h][i]) }

IsDisconnectedNotify(e) == IsNotify(e, "CHILD_PROCESS_HOST_DISCONNECTED")
IsCrashedNotify(e) == IsNotify(e, "CHILD_PROCESS_CRASHED")
IsCrashedCallback(e) == e.e = "OnProcessCrashed"
IsCrashedSample(e) == IsSample(e, "ChildProcess.Crashed")

\* An OnChildDisconnected call that found the process running for the
\* first time, and one that did not.
IsWaitingCall(e) ==
  IsOnChildDisconnected(e) /\ e.status = "STILL_RUNNING" /\ ~e.was_alive
IsFinalCall(e) == IsOnChildDisconnected(e) /\ ~IsWaitingCall(e)

\* The notification types among the entries of l, in order.
RECURSIVE NotifyTypes(_)
NotifyTypes(l) ==
  IF l = << >> THEN << >>
  ELSE (IF Head(l).e = "Notify" THEN << Head(l).type >> ELSE << >>)
       \o NotifyTypes(Tail(l))

\* In a step: the entries host h adds to its log, and whether the step is
\* a call of OnChildDisconnected, whose first entry records the call.
NewEntries(h) == SubSeq(log'[h], Len(log[h]) + 1, Len(log'[h]))
CallStep(h) ==
  /\ Len(log'[h]) > Len(log[h])
  /\ IsOnChildDisconnected(log'[h][Len(log[h]) + 1])
TheCall(h) == log'[h][Len(log[h]) + 1]
SignaledStep(h) ==
  /\ Len(log'[h]) > Len(log[h])
  /\ log'[h][Len(log[h]) + 1].e = "OnWaitableEventSignaled"

\* The re-check is scheduled by this step: the watcher starts watching, or
\* one more delayed task is queued.
SchedulesRecheck(h) ==
  IF platform = "OS_WIN"
    THEN child_watcher_'[h].watching /\ delayed_tasks' = delayed_tasks
    ELSE delayed_tasks'[h] = delayed_tasks[h] + 1

\* ------------------------------------------------------------------ C1

\* C1 as claimed: every destroyed host has posted exactly one
\* CHILD_PROCESS_HOST_DISCONNECTED notification.
C1_ExactlyOneOnEveryPath ==
  \A h \in Hosts :
    life[h] = "deleted" =>
      Cardinality(Positions(h, IsDisconnectedNotify)) = 1

\* C1, amended: a host posts at most one CHILD_PROCESS_HOST_DISCONNECTED
\* notification, however often OnChildDisconnected is called; it posts one
\* exactly when a call of OnChildDisconnected did not return to wait, and
\* then it is the last thing the host does before it deletes itself.  A host
\* deleted on any other path (failed launch, STILL_ACTIVE exit code on the
\* handle wait, TerminateAll, its owner) has posted none.
C1_AtMostOneDisconnected ==
  \A h \in Hosts :
    LET posted == Positions(h, IsDisconnectedNotify)
        n == Len(log[h])
    IN /\ Cardinality(posted) <= 1
       /\ posted # {} <=> Positions(h, IsFinalCall) # {}
       /\ posted # {} =>
            /\ life[h] = "deleted"
            /\ posted = { n - 1 }
            /\ log[h][n] = DeleteThis

C1_Witness ==
  \E h \in Hosts :
    /\ life[h] = "deleted"
    /\ Cardinality(Positions(h, IsOnChildDisconnected)) = 2
    /\ Cardinality(Positions(h, IsDisconnectedNotify)) = 1

\* ------------------------------------------------------------------ C2

\* C2: a call of OnChildDisconnected that finds the process still running
\* while disconnect_was_alive_ is false sets the flag, schedules the
\* re-check, posts no notification, calls no delegate callback and leaves
\* the host alive; a later call that finds the process crashed has then
\* posted, over the host's whole life, exactly one CHILD_PROCESS_CRASHED
\* followed by exactly one CHILD_PROCESS_HOST_DISCONNECTED.
C2_DeferThenCrash ==
  [][\A h \in Hosts :
       CallStep(h) =>
         /\ IsWaitingCall(TheCall(h)) =>
              /\ ~disconnect_was_alive_[h]
              /\ disconnect_was_alive_'[h]
              /\ SchedulesRecheck(h)
              /\ Len(NewEntries(h)) = 2
              /\ IsSchedule(NewEntries(h)[2])
              /\ ui_tasks' = ui_tasks
              /\ delegate_' = delegate_
              /\ histograms' = histograms
              /\ life'[h] = "alive"
         /\ (TheCall(h).was_alive /\ TheCall(h).status \in Crashes) =>
              /\ LET posted == NotifyTypes(log'[h])
                     n == Len(posted)
                 IN /\ n >= 2
                    /\ SubSeq(posted, n - 1, n) =
                         << "CHILD_PROCESS_CRASHED",
                            "CHILD_PROCESS_HOST_DISCONNECTED" >>
                    /\ \A i \in 1..(n - 2) :
                         posted[i] = "CHILD_PROCESS_HOST_CONNECTED"
              /\ Len(ui_tasks') = Len(ui_tasks) + 2
              /\ ui_tasks'[Len(ui_tasks) + 1].type = "CHILD_PROCESS_CRASHED"
              /\ ui_tasks'[Len(ui_tasks) + 2].type =
                   "CHILD_PROCESS_HOST_DISCONNECTED"
    ]_vars

C2_Witness ==
  \E h \in Hosts :
    \E i, j \in Positions(h, IsOnChildDisconnected) :
      /\ i < j
      /\ IsWaitingCall(log[h][i])
      /\ IsSchedule(log[h][i + 1])
      /\ log[h][j].was_alive
      /\ log[h][j].status \in Crashes
      /\ NotifyTypes(SubSeq(log[h], i, Len(log[h]))) =
           << "CHILD_PROCESS_CRASHED", "CHILD_PROCESS_HOST_DISCONNECTED" >>

\* ------------------------------------------------------------------ C3

\* C3: every re-check that finds the process still running a second time
\* (disconnect_was_alive_ already true) posts
\* CHILD_PROCESS_HOST_DISCONNECTED and destroys the host, with the delayed
\* task and with the handle wait alike.  A re-check is a call of
\* OnChildDisconnected that reads STILL_RUNNING with the flag set, or the
\* handle-wait callback that reads the exit code STILL_ACTIVE, the exit
\* code of a process that is still running.
C3_EveryRecheckNotifies ==
  [][\A h \in Hosts :
       \/ CallStep(h) /\ TheCall(h).status = "STILL_RUNNING"
                      /\ TheCall(h).was_alive
       \/ SignaledStep(h)
       => /\ \E i \in 1..Len(NewEntries(h)) :
               IsDisconnectedNotify(NewEntries(h)[i])
          /\ life'[h] = "deleted"
    ]_vars

\* ------------------------------------------------------------------ C4

\* A call of OnChildDisconnected on a host that has its process handle
\* (the DCHECK of the handler holds) and asks about that process.
IsCallWithHandle(e) ==
  /\ IsOnChildDisconnected(e)
  /\ e.handle # kNullProcessHandle
  /\ e.queried = e.handle

\* C4: once OnChildDisconnected has been called on a host, the host is
\* eventually destroyed, even if the process is reported as still
\* running forever.
C4_EventuallyDestroyed ==
  \A h \in Hosts :
    (Positions(h, IsCallWithHandle) # {}) ~> (life[h] = "deleted")

\* ------------------------------------------------------------------ C5

IsRecheckCall(e) == IsOnChildDisconnected(e) /\ e.was_alive

\* C5: over a host's life OnChildDisconnected runs at most twice and
\* schedules at most one re-check, handle wait or delayed task; a call made
\* while disconnect_was_alive_ is already true schedules nothing, so no
\* re-check is scheduled after it, and at most one re-check is pending.
C5_AtMostOneRecheck ==
  \A h \in Hosts :
    /\ Cardinality(Positions(h, IsOnChildDisconnected)) <= 2
    /\ Cardinality(Positions(h, IsSchedule)) <= 1
    /\ \A i \in Positions(h, IsRecheckCall) :
         \A j \in Positions(h, IsSchedule) : j < i
    /\ delayed_tasks[h] + (IF child_watcher_[h].watching THEN 1 ELSE 0)
         <= Cardinality(Positions(h, IsSchedule))

C5_Witness ==
  \E h \in Hosts :
    /\ Cardinality(Positions(h, IsOnChildDisconnected)) = 2
    /\ Cardinality(Positions(h, IsSchedule)) = 1
    /\ Positions(h, IsRecheckCall) # {}
    /\ log[h][Len(log[h])] = DeleteThis

\* ------------------------------------------------------------------ C6

IsStillRunningCall(e) ==
  IsOnChildDisconnected(e) /\ e.status = "STILL_RUNNING"

\* C6: while a host lives, disconnect_was_alive_ is true exactly when one
\* of its OnChildDisconnected calls has found the process still running:
\* false in every state before the first such call and true in every state
\* after it, so it never goes back to false; before construction it is
\* false.
C6_WasAliveFlag ==
  \A h \in Hosts :
    /\ life[h] = "alive" =>
         (disconnect_was_alive_[h] <=>
            Positions(h, IsStillRunningCall) # {})
    /\ life[h] = "unborn" => ~disconnect_was_alive_[h]

C6_Witness ==
  \E h \in Hosts :
    /\ life[h] = "alive"
    /\ disconnect_was_alive_[h]
    /\ Positions(h, IsStillRunningCall) # {}
    /\ delegate_[h].OnChannelError > 0

\* ------------------------------------------------------------------ C7

Count(h, name) == histograms[name][data_[h].type]
CountAfter(h, name) == histograms'[name][data_[h].type]

\* C7: a call of OnChildDisconnected that finds the process crashed or
\* abnormally terminated calls the delegate's OnProcessCrashed once with
\* the exit code, posts one CHILD_PROCESS_CRASHED notification, counts
\* ChildProcess.Crashed once for the process type, counts
\* ChildProcess.CrashedWasAlive once exactly when disconnect_was_alive_ was
\* already true, and then performs the terminal step.
C7_CrashCase ==
  [][\A h \in Hosts :
       (CallStep(h) /\ TheCall(h).status \in Crashes) =>
         LET new == NewEntries(h)
             call == TheCall(h)
             alive == IF call.was_alive THEN 1 ELSE 0
         IN /\ call.was_alive = disconnect_was_alive_[h]
            /\ Len(new) = 7 + alive
            /\ new[2] = [e |-> "OnProcessCrashed",
                         exit_code |-> call.exit_code]
            /\ IsCrashedNotify(new[3])
            /\ IsCrashedSample(new[4])
            /\ call.was_alive => IsSample(new[5], "ChildProcess.CrashedWasAlive")
            /\ \A i \in 1..Len(new) :
                 /\ IsCrashedCallback(new[i]) => i = 2
                 /\ IsCrashedNotify(new[i]) => i = 3
                 /\ IsCrashedSample(new[i]) => i = 4
                 /\ IsSample(new[i], "ChildProcess.CrashedWasAlive") =>
                      call.was_alive /\ i = 5
            /\ IsSample(new[5 + alive], "ChildProcess.Disconnected")
            /\ IsDisconnectedNotify(new[6 + alive])
            /\ new[7 + alive] = DeleteThis
            /\ CountAfter(h, "ChildProcess.Crashed") =
                 Count(h, "ChildProcess.Crashed") + 1
            /\ CountAfter(h, "ChildProcess.CrashedWasAlive") =
                 Count(h, "ChildProcess.CrashedWasAlive") + alive
            /\ CountAfter(h, "ChildProcess.Killed") =
                 Count(h, "ChildProcess.Killed")
            /\ Len(ui_tasks') = Len(ui_tasks) + 2
            /\ ui_tasks'[Len(ui_tasks) + 1] =
                 [type |-> "CHILD_PROCESS_CRASHED", data |-> data_[h]]
            /\ life'[h] = "deleted"
    ]_vars

C7_Witness ==
  \E h \in Hosts :
    \E i \in Positions(h, IsCrashedCallback) :
      /\ i > 1
      /\ IsRecheckCall(log[h][i - 1])
      /\ log[h][i - 1].status = "ABNORMAL_TERMINATION"
      /\ log[h][i].exit_code = log[h][i - 1].exit_code
      /\ IsSample(log[h][i + 3], "ChildProcess.CrashedWasAlive")
      /\ life[h] = "deleted"

\* ------------------------------------------------------------------ C8

\* C8: a call of OnChildDisconnected that finds the process killed counts
\* ChildProcess.Killed once for the process type and
\* ChildProcess.KilledWasAlive once exactly when disconnect_was_alive_ was
\* already true, does not call the delegate's OnProcessCrashed, posts no
\* CHILD_PROCESS_CRASHED notification, and then performs the terminal step.
C8_KilledCase ==
  [][\A h \in Hosts :
       (CallStep(h) /\ TheCall(h).status = "PROCESS_WAS_KILLED") =>
         LET new == NewEntries(h)
             call == TheCall(h)
             alive == IF call.was_alive THEN 1 ELSE 0
         IN /\ call.was_alive = disconnect_was_alive_[h]
            /\ Len(new) = 5 + alive
            /\ IsSample(new[2], "ChildProcess.Killed")
            /\ call.was_alive => IsSample(new[3], "ChildProcess.KilledWasAlive")
            /\ \A i \in 1..Len(new) :
                 /\ ~IsCrashedCallback(new[i])
                 /\ ~IsCrashedNotify(new[i])
                 /\ ~IsCrashedSample(new[i])
                 /\ IsSample(new[i], "ChildProcess.Killed") => i = 2
                 /\ IsSample(new[i], "ChildProcess.KilledWasAlive") =>
                      call.was_alive /\ i = 3
            /\ IsSample(new[3 + alive], "ChildProcess.Disconnected")
            /\ IsDisconnectedNotify(new[4 + alive])
            /\ new[5 + alive] = DeleteThis
            /\ CountAfter(h, "ChildProcess.Killed") =
                 Count(h, "ChildProcess.Killed") + 1
            /\ CountAfter(h, "ChildProcess.KilledWasAlive") =
                 Count(h, "ChildProcess.KilledWasAlive") + alive
            /\ CountAfter(h, "ChildProcess.Crashed") =
                 Count(h, "ChildProcess.Crashed")
            /\ Len(ui_tasks') = Len(ui_tasks) + 1
            /\ ui_tasks'[Len(ui_tasks')].type # "CHILD_PROCESS_CRASHED"
            /\ delegate_' = delegate_
            /\ life'[h] = "deleted"
    ]_vars

C8_Witness ==
  \E h \in Hosts :
    \E i \in Positions(h, IsRecheckCall) :
      /\ log[h][i].status = "PROCESS_WAS_KILLED"
      /\ IsSample(log[h][i + 1], "ChildProcess.Killed")
      /\ IsSample(log[h][i + 2], "ChildProcess.KilledWasAlive")
      /\ Positions(h, IsCrashedCallback) = {}
      /\ life[h] = "deleted"

\* ------------------------------------------------------------------ C9

\* What every call of OnChildDisconnected that does not return to wait
\* does last: it counts ChildProcess.Disconnected once, posts one
\* CHILD_PROCESS_HOST_DISCONNECTED notification that carries the host's
\* data, and deletes the host.
EndsWithTerminalStep(h) ==
  LET new == NewEntries(h)
      n == Len(new)
  IN /\ n >= 4
     /\ IsSample(new[n - 2], "ChildProcess.Disconnected")
     /\ IsDisconnectedNotify(new[n - 1])
     /\ new[n] = DeleteThis
     /\ \A i \in 1..n :
          /\ IsSample(new[i], "ChildProcess.Disconnected") => i = n - 2
          /\ IsDisconnectedNotify(new[i]) => i = n - 1
          /\ new[i] = DeleteThis => i = n
     /\ CountAfter(h, "ChildProcess.Disconnected") =
          Count(h, "ChildProcess.Disconnected") + 1
     /\ Len(ui_tasks') > Len(ui_tasks)
     /\ ui_tasks'[Len(ui_tasks')] =
          [type |-> "CHILD_PROCESS_HOST_DISCONNECTED", data |-> data_[h]]
     /\ life'[h] = "deleted"
     /\ h \notin Elements(g_child_process_list')

\* The delegate is called in this step.
InformsDelegate(h) ==
  \/ delegate_'[h] # delegate_[h]
  \/ \E i \in 1..Len(NewEntries(h)) : IsCrashedCallback(NewEntries(h)[i])

\* C9 as claimed: every call of OnChildDisconnected that does not return to
\* wait performs the terminal step and informs the delegate.
C9_TerminalStepInformsDelegate ==
  [][\A h \in Hosts :
       (CallStep(h) /\ ~IsWaitingCall(TheCall(h))) =>
         EndsWithTerminalStep(h) /\ InformsDelegate(h)
    ]_vars

\* C9, amended: every call of OnChildDisconnected that does not return to
\* wait performs the terminal step: it counts ChildProcess.Disconnected
\* once, posts one CHILD_PROCESS_HOST_DISCONNECTED notification and
\* destroys the host.  The terminal step does not call the delegate; the
\* only delegate callback of the call is OnProcessCrashed, in the crash
\* case.
C9_TerminalStep ==
  [][\A h \in Hosts :
       (CallStep(h) /\ ~IsWaitingCall(TheCall(h))) =>
         /\ EndsWithTerminalStep(h)
         /\ delegate_' = delegate_
         /\ InformsDelegate(h) <=> TheCall(h).status \in Crashes
         /\ \A i \in 1..Len(NewEntries(h)) :
              IsCrashedCallback(NewEntries(h)[i]) => i = 2
    ]_vars

C9_Witness ==
  \E h \in Hosts :
    \E i \in Positions(h, IsFinalCall) :
      /\ log[h][i].status = "NORMAL_TERMINATION"
      /\ Len(log[h]) = i + 3
      /\ IsSample(log[h][i + 1], "ChildProcess.Disconnected")
      /\ IsDisconnectedNotify(log[h][i + 2])
      /\ life[h] = "deleted"
      /\ ui_tasks # << >>
      /\ ui_tasks[Len(ui_tasks)].type = "CHILD_PROCESS_HOST_DISCONNECTED"

\* ----------------------------------------------------------------- C10

\* The host deleted itself from one of its own handlers after a call of
\* OnChildDisconnected that had the process handle p.
DestroyedItself(h, p) ==
  /\ life[h] = "deleted"
  /\ \E i \in Positions(h, IsCallWithHandle) : log[h][i].handle = p
  /\ Len(log[h]) >= 2
  /\ log[h][Len(log[h])] = DeleteThis
  /\ \/ IsDisconnectedNotify(log[h][Len(log[h]) - 1])
     \/ log[h][Len(log[h]) - 1].e = "OnWaitableEventSignaled"

CrashReported(h) ==
  /\ Positions(h, IsCrashedCallback) # {}
  /\ Positions(h, IsCrashedSample) # {}

\* C10 as claimed: whenever the process of a host terminates abnormally
\* after OnChildDisconnected was called on the host, the crash has been
\* reported to the delegate and counted once the host has destroyed
\* itself, also when it becomes visible only after one or more
\* observations of a running process.
C10_CrashNeverDropped ==
  \A h \in Hosts : \A p \in Handles :
    (DestroyedItself(h, p) /\ os[p] \in Crashes) => CrashReported(h)

IsCrashCall(e) == IsOnChildDisconnected(e) /\ e.status \in Crashes

\* C10, amended: a crash is reported when a call of OnChildDisconnected
\* observes it, the first call or the single re-check after one observation
\* of a running process: that call calls the delegate's OnProcessCrashed
\* with the exit code and counts ChildProcess.Crashed before the host is
\* deleted, and the status a call reads of an exited process is the status
\* the process exited with.  A crash that no call of OnChildDisconnected
\* observes is not reported: the host is already destroyed after a second
\* observation of a running process, or the handle wait reads the exit
\* code STILL_ACTIVE.
C10_ObservedCrashReported ==
  \A h \in Hosts :
    /\ \A i \in Positions(h, IsCrashCall) :
         /\ Len(log[h]) >= i + 3
         /\ log[h][i + 1] = [e |-> "OnProcessCrashed",
                             exit_code |-> log[h][i].exit_code]
         /\ IsCrashedSample(log[h][i + 3])
         /\ \A j \in 1..(i + 3) : log[h][j] # DeleteThis
         /\ \E t \in ProcessTypes : histograms["ChildProcess.Crashed"][t] > 0
    /\ CrashReported(h) => Positions(h, IsCrashCall) # {}
    /\ Cardinality(Positions(h, IsCrashedCallback)) <= 1
    /\ \A i \in Positions(h, IsCallWithHandle) :
         log[h][i].status # "STILL_RUNNING" =>
           os[log[h][i].handle] = log[h][i].status

C10_Witness ==
  \E h \in Hosts :
    \E i, j \in Positions(h, IsCallWithHandle) :
      /\ i < j
      /\ IsWaitingCall(log[h][i])
      /\ IsCrashCall(log[h][j])
      /\ log[h][j].status = "PROCESS_CRASHED"
      /\ CrashReported(h)
      /\ life[h] = "deleted"

\* ----------------------------------------------------------------- C11

\* The notification types of the tasks of host h among `tasks`, in order.
RECURSIVE TypesFor(_, _)
TypesFor(tasks, h) ==
  IF tasks = << >> THEN << >>
  ELSE (IF Head(tasks).data.id = h THEN << Head(tasks).type >> ELSE << >>)
       \o TypesFor(Tail(tasks), h)

\* Connected first, at most one disconnected, and that one last.
InLifecycleOrder(types) ==
  /\ \A i, j \in 1..Len(types) :
       (i < j /\ types[j] = "CHILD_PROCESS_HOST_CONNECTED") =>
         types[i] = "CHILD_PROCESS_HOST_CONNECTED"
  /\ \A i \in 1..Len(types) :
       types[i] = "CHILD_PROCESS_HOST_DISCONNECTED" => i = Len(types)

\* C11: in the notifications delivered on the UI thread for one host,
\* every CHILD_PROCESS_HOST_CONNECTED comes before any
\* CHILD_PROCESS_CRASHED or CHILD_PROCESS_HOST_DISCONNECTED, there is at
\* most one CHILD_PROCESS_HOST_DISCONNECTED, and nothing follows it; the
\* same holds of the notifications posted and not yet delivered.
C11_DeliveryOrder ==
  \A h \in Hosts :
    /\ InLifecycleOrder(TypesFor(ui_delivered, h))
    /\ InLifecycleOrder(TypesFor(ui_delivered \o ui_tasks, h))
    /\ TypesFor(ui_delivered \o ui_tasks, h) = NotifyTypes(log[h])

C11_Witness ==
  \E h \in Hosts :
    TypesFor(ui_delivered, h) =
      << "CHILD_PROCESS_HOST_CONNECTED", "CHILD_PROCESS_CRASHED",
         "CHILD_PROCESS_HOST_DISCONNECTED" >>

\* ----------------------------------------------------------------- C12

\* How often the list holds host h.
Occurrences(list, h) == Cardinality({ i \in 1..Len(list) : list[i] = h })

\* C12: the list holds each host at most once; a host is in the list
\* exactly once from its construction until the first of its destruction,
\* ForceShutdown or ShutdownStarted, and is never added again.
C12_RegisteredOnce ==
  [][\A h \in Hosts :
       /\ Occurrences(g_child_process_list', h) <= 1
       /\ life[h] = "unborn" => h \notin Elements(g_child_process_list)
       /\ (life[h] = "unborn" /\ life'[h] = "alive") =>
            Occurrences(g_child_process_list', h) = 1
       /\ (/\ h \in Elements(g_child_process_list)
           /\ life'[h] = "alive"
           /\ ~ForceShutdown(h)
           /\ ~ShutdownStarted(h)) =>
            h \in Elements(g_child_process_list')
       /\ (/\ h \in Elements(g_child_process_list)
           /\ \/ life'[h] = "deleted"
              \/ ForceShutdown(h)
              \/ ShutdownStarted(h)) =>
            h \notin Elements(g_child_process_list')
       /\ (life[h] # "unborn" /\ h \notin Elements(g_child_process_list)) =>
            h \notin Elements(g_child_process_list')
    ]_vars

C12_Witness ==
  \E h, k \in Hosts :
    /\ h # k
    /\ life[h] = "alive" /\ h \in Elements(g_child_process_list)
    /\ life[k] = "alive" /\ k \notin Elements(g_child_process_list)
    /\ child_process_[h].done

\* ----------------------------------------------------------------- C13

\* C13: right after ForceShutdown or ShutdownStarted on a host, the host is
\* absent from the list GetIterator gives, while the host object still
\* exists and its process has not been made to exit.
C13_AbsentAfterShutdown ==
  [][\A h \in Hosts :
       (ForceShutdown(h) \/ ShutdownStarted(h)) =>
         /\ h \notin Elements(g_child_process_list')
         /\ life'[h] = "alive"
         /\ data_'[h] = data_[h]
         /\ child_process_'[h] = child_process_[h]
         /\ os' = os
    ]_vars

C13_Witness ==
  \E h \in Hosts :
    /\ life[h] = "alive"
    /\ h \notin Elements(g_child_process_list)
    /\ ~channel[h].shutdown
    /\ data_[h].handle # kNullProcessHandle
    /\ os[data_[h].handle] = "STILL_RUNNING"

\* ----------------------------------------------------------------- C14

\* The deletions a step adds to the log of host h.
DeletionsOf(h) ==
  Cardinality({ i \in 1..Len(NewEntries(h)) : NewEntries(h)[i] = DeleteThis })

C15_InvisibleToTerminateAll ==
  [][TerminateAll =>
       \A h \in Hosts :
         (/\ life[h] = "alive"
          /\ \/ h \notin Elements(g_child_process_list)
             \/ channel[h].shutdown) =>
           /\ life'[h] = "alive"
           /\ data_'[h] = data_[h]
           /\ child_process_'[h] = child_process_[h]
           /\ channel'[h] = channel[h]
           /\ child_watcher_'[h] = child_watcher_[h]
           /\ disconnect_was_alive_'[h] = disconnect_was_alive_[h]
           /\ log'[h] = log[h]
           /\ delegate_'[h] = delegate_[h]
    ]_vars

C15_Witness ==
  \E h, k \in Hosts :
    /\ life[h] = "alive"
    /\ channel[h].shutdown
    /\ h \notin Elements(g_child_process_list)
    /\ k > h
    /\ life[k] = "deleted"
    /\ log[k][Len(log[k]) - 1].e = "TerminateAll"

\* ----------------------------------------------------------------- C16

\* The list without the entries of host h, the other entries in order.
Without(list, h) == SelectSeq(list, LAMBDA k : k # h)

\* C16: ForceShutdown, ShutdownStarted and the destruction of a host that
\* is already absent from the list leave the list as it is, content and
\* order; on a host that is in the list they remove its entry and no other.
C16_RemovalIdempotent ==
  [][\A h \in Hosts :
       (\/ ForceShutdown(h)
        \/ ShutdownStarted(h)
        \/ life[h] = "alive" /\ life'[h] = "deleted"
                             /\ \A k \in Hosts \ {h} : life'[k] = life[k]) =>
         /\ g_child_process_list' = Without(g_child_process_list, h)
         /\ h \notin Elements(g_child_process_list) =>
              g_child_process_list' = g_child_process_list
    ]_vars

C16_Witness ==
  \E h, k \in Hosts :
    /\ life[h] = "alive"
    /\ channel[h].shutdown
    /\ h < k
    /\ life[k] = "alive"
    /\ child_process_[k].present
    /\ g_child_process_list = << k >>

\* ----------------------------------------------------------------- C17

\* C17: when a launch completes with a valid handle, OnProcessLaunched
\* stores the handle in data_ and calls the delegate's OnProcessLaunched
\* once; the delegate's OnProcessLaunched is called in no other step, so
\* over the life of a host, which is launched once, it has been called
\* exactly once when the launch has succeeded and never otherwise.
C17_LaunchedOnce ==
  [][\A h \in Hosts :
       /\ \A handle \in Handles :
            OnProcessLaunched(h, handle) =>
              /\ data_'[h].handle = handle
              /\ child_process_'[h].handle = handle
              /\ delegate_[h].OnProcessLaunched = 0
              /\ delegate_'[h].OnProcessLaunched = 1
              /\ life'[h] = "alive"
       /\ delegate_'[h].OnProcessLaunched # delegate_[h].OnProcessLaunched =>
            \E handle \in Handles : OnProcessLaunched(h, handle)
       /\ life'[h] = "alive" =>
            delegate_'[h].OnProcessLaunched =
              (IF child_process_'[h].done THEN 1 ELSE 0)
    ]_vars

C17_Witness ==
  \E h \in Hosts :
    /\ life[h] = "alive"
    /\ child_process_[h].done
    /\ data_[h].handle = child_process_[h].handle
    /\ data_[h].handle \in Handles
    /\ delegate_[h].OnProcessLaunched = 1
    /\ delegate_[h].OnChannelConnected = 1

\* ----------------------------------------------------------------- C18

\* C18: when a launch completes with a null handle, the host deletes itself
\* in that very call: the delegate is not called (no OnProcessLaunched, no
\* OnProcessCrashed), no histogram changes, nothing is posted, the handle
\* is not stored, and the list holds no entry of the host afterwards.
C18_LaunchFailure ==
  [][\A h \in Hosts :
       OnProcessLaunched(h, kNullProcessHandle) =>
         /\ life'[h] = "deleted"
         /\ NewEntries(h) = << [e |-> "OnProcessLaunched"], DeleteThis >>
         /\ delegate_' = delegate_
         /\ histograms' = histograms
         /\ ui_tasks' = ui_tasks
         /\ data_'[h] = NoData
         /\ child_process_'[h] = NoLauncher
         /\ h \notin Elements(g_child_process_list')
         /\ g_child_process_list' = Without(g_child_process_list, h)
    ]_vars

C18_Witness ==
  \E h \in Hosts :
    /\ life[h] = "deleted"
    /\ Len(log[h]) >= 2
    /\ log[h][Len(log[h]) - 1].e = "OnProcessLaunched"
    /\ delegate_[h].OnProcessLaunched = 0
    /\ Positions(h, IsCrashedCallback) = {}
    /\ h \notin Elements(g_child_process_list)

\* ----------------------------------------------------------------- C19

\* C19 as claimed: once data_ of a host holds a non-null handle, no call
\* of Launch, OnProcessLaunched or SetHandle changes it.
C19_HandleSetOnce ==
  [][\A h \in Hosts :
       (/\ life[h] = "alive" /\ life'[h] = "alive"
        /\ data_[h].handle # kNullProcessHandle) =>
         data_'[h].handle = data_[h].handle
    ]_vars

\* C19, amended: while a host lives, the handle of data_ is written only
\* by SetHandle, which stores its argument, and by OnProcessLaunched with a
\* valid handle, which stores the handle of the launcher; Launch and every
\* other call leave it as it is.  The writes are not limited to one: a
\* SetHandle after the handle is set overwrites it.
C19_HandleWriters ==
  [][\A h \in Hosts :
       (life[h] = "alive" /\ life'[h] = "alive") =>
         /\ data_'[h].handle # data_[h].handle =>
              \/ \E handle \in Handles \cup {kNullProcessHandle} :
                   SetHandle(h, handle)
              \/ \E handle \in Handles : OnProcessLaunched(h, handle)
         /\ \A handle \in Handles \cup {kNullProcessHandle} :
              SetHandle(h, handle) => data_'[h].handle = handle
         /\ \A handle \in Handles :
              OnProcessLaunched(h, handle) =>
                data_'[h].handle = handle
         /\ Launch(h) => data_'[h].handle = data_[h].handle
    ]_vars

C19_Witness ==
  \E h \in Hosts :
    /\ life[h] = "alive"
    /\ child_process_[h].done
    /\ child_process_[h].handle \in Handles
    /\ delegate_[h].OnProcessLaunched = 1
    /\ data_[h].handle # child_process_[h].handle

\* ----------------------------------------------------------------- C20

\* The tasks a step posts for host h: one for each Notify of the step,
\* with data_ of the host as it is when the step begins.
Snapshots(h) ==
  [i \in 1..Len(NotifyTypes(NewEntries(h))) |->
     [type |-> NotifyTypes(NewEntries(h))[i], data |-> data_[h]]]

\* C20: the data a notification is delivered with on the UI thread is
\* data_ of the host at the moment Notify was called: a step that calls
\* Notify queues a copy of data_, and no later step, SetName, SetHandle or
\* the destruction of the host, changes a task that is queued or has been
\* delivered; the UI thread delivers the queued tasks in order.
C20_DeliveredSnapshot ==
  [][/\ Len(ui_delivered') >= Len(ui_delivered)
     /\ \A h \in Hosts :
          NotifyTypes(NewEntries(h)) # << >> =>
            ui_delivered' \o ui_tasks' =
              (ui_delivered \o ui_tasks) \o Snapshots(h)
     /\ (\A h \in Hosts : NotifyTypes(NewEntries(h)) = << >>) =>
          ui_delivered' \o ui_tasks' = ui_delivered \o ui_tasks
    ]_vars

C20_Witness ==
  \E h \in Hosts :
    /\ life[h] = "deleted"
    /\ Len(ui_delivered) = 2
    /\ ui_delivered[1] =
         [type |-> "CHILD_PROCESS_HOST_CONNECTED",
          data |-> [type |-> "GPU", id |-> h, name |-> "",
                    handle |-> kNullProcessHandle]]
    /\ ui_delivered[2].type = "CHILD_PROCESS_HOST_DISCONNECTED"
    /\ ui_delivered[2].data.id = h
    /\ ui_delivered[2].data.name = "name"
    /\ ui_delivered[2].data.handle \in Handles

\* ----------------------------------------------------------------- C21

\* A step of the UI thread: a notification is delivered, or a posted task
\* leaves the queue.
UIThreadStep ==
  \/ ui_delivered' # ui_delivered
  \/ Len(ui_tasks') < Len(ui_tasks)

\* C21: a step of the UI thread takes the first posted task and delivers
\* what the task carries, and changes no member of any host, not the list,
\* and not the histograms; every other step leaves the delivered
\* notifications alone and only appends tasks to the queue, each with a
\* copy of data_ of its host.  This holds in every order of the steps of
\* the two threads.
C21_UIThreadConfined ==
  [][/\ UIThreadStep =>
          /\ ui_tasks # << >>
          /\ ui_delivered' = Append(ui_delivered, Head(ui_tasks))
          /\ ui_tasks' = Tail(ui_tasks)
          /\ UNCHANGED << platform, members, delayed_tasks,
                          g_child_process_list, os, histograms, log,
                          delegate_ >>
     /\ ~UIThreadStep =>
          /\ ui_delivered' = ui_delivered
          /\ SubSeq(ui_tasks', 1, Len(ui_tasks)) = ui_tasks
          /\ \A i \in (Len(ui_tasks) + 1)..Len(ui_tasks') :
               /\ ui_tasks'[i].data.id \in Hosts
               /\ ui_tasks'[i].data = data_[ui_tasks'[i].data.id]
    ]_vars

C21_Witness ==
  \E h \in Hosts :
    /\ life[h] = "alive"
    /\ h \in Elements(g_child_process_list)
    /\ data_[h].name = "name"
    /\ Len(ui_delivered) = 1
    /\ ui_delivered[1].type = "CHILD_PROCESS_HOST_CONNECTED"
    /\ ui_delivered[1].data.id = h
    /\ ui_delivered[1].data.name = ""
    /\ ui_tasks = << >>

\* ----------------------------------------------------------------- C22

\* The step calls the delegate's OnChannelError of host h.
ForwardsChannelError(h) ==
  delegate_'[h].OnChannelError # delegate_[h].OnChannelError

\* C22: OnChannelError calls the delegate's OnChannelError once and does
\* nothing else: disconnect_was_alive_, data_, the other members, the list,
\* the histograms and the scheduled re-checks are unchanged, nothing is
\* posted, and the host lives; OnChildDisconnected is a call of its own,
\* made by the delegate or the channel host.
C22_ChannelErrorOnlyForwards ==
  [][\A h \in Hosts :
       ForwardsChannelError(h) =>
         /\ delegate_' = [delegate_ EXCEPT ![h].OnChannelError = @ + 1]
         /\ life[h] = "alive" /\ life'[h] = "alive"
         /\ log' = log
         /\ UNCHANGED << members, delayed_tasks, g_child_process_list,
                         histograms, ui_tasks, ui_delivered, os >>
    ]_vars

C22_Witness ==
  \E h \in Hosts :
    /\ life[h] = "alive"
    /\ delegate_[h].OnChannelError = 1
    /\ delegate_[h].OnChannelConnected = 1
    /\ ~disconnect_was_alive_[h]
    /\ Positions(h, IsOnChildDisconnected) = {}
    /\ NotifyTypes(log[h]) = << "CHILD_PROCESS_HOST_CONNECTED" >>
    /\ h \in Elements(g_child_process_list)
    /\ data_[h].handle \in Handles

\* ----------------------------------------------------------------- C23

\* C23: ShutdownStarted takes its host out of the list and changes nothing
\* else: the channel is not shut down, no process exits, nothing is posted
\* or counted, the delegate is not called, data_ and
\* disconnect_was_alive_ are as before.  ForceShutdown takes its host out
\* of the list and shuts the channel down, and changes nothing else: it
\* posts nothing and the host lives.
C23_ShutdownFrame ==
  [][\A h \in Hosts :
       /\ ShutdownStarted(h) =>
            /\ g_child_process_list' = Without(g_child_process_list, h)
            /\ channel' = channel
            /\ UNCHANGED << life, data_, child_process_,
                            disconnect_was_alive_, child_watcher_,
                            delayed_tasks, os, histograms, ui_tasks, log,
                            ui_delivered, delegate_ >>
       /\ ForceShutdown(h) =>
            /\ g_child_process_list' = Without(g_child_process_list, h)
            /\ channel'[h].shutdown
            /\ \A k \in Hosts \ {h} : channel'[k] = channel[k]
            /\ life'[h] = "alive"
            /\ UNCHANGED << life, data_, child_process_,
                            disconnect_was_alive_, child_watcher_,
                            delayed_tasks, os, histograms, ui_tasks, log,
                            ui_delivered, delegate_ >>
    ]_vars

C23_Witness ==
  \E h \in Hosts :
    /\ life[h] = "alive"
    /\ h \notin Elements(g_child_process_list)
    /\ ~channel[h].shutdown
    /\ disconnect_was_alive_[h]
    /\ delegate_[h].OnChannelConnected = 1
    /\ data_[h].handle \in Handles
    /\ os[data_[h].handle] = "STILL_RUNNING"
    /\ ui_tasks # << >>

\* ----------------------------------------------------------------- C24

IsQuery(e) == e.e = "GetTerminationStatus"

\* The step is a call of GetTerminationStatus on host h by a caller.
QueryStep(h) ==
  /\ Len(log'[h]) > Len(log[h])
  /\ IsQuery(log'[h][Len(log[h]) + 1])

\* C24: GetTerminationStatus on a host without a launcher (Launch was not
\* called) returns the status of the process of data_.handle; on a host
\* with a launcher it returns the status the launcher reports, the status
\* of the launcher's process, whatever data_.handle is.  The call changes
\* no member of the host, not the list, and posts and counts nothing.
C24_StatusSource ==
  [][\A h \in Hosts :
       QueryStep(h) =>
         LET call == TheCall(h) IN
         /\ NewEntries(h) = << call >>
         /\ call.launcher = child_process_[h].present
         /\ (~child_process_[h].present
               /\ data_[h].handle # kNullProcessHandle) =>
              call.status = os[data_[h].handle]
         /\ (child_process_[h].present
               /\ child_process_[h].handle # kNullProcessHandle) =>
              call.status = os[child_process_[h].handle]
         /\ UNCHANGED << members, delayed_tasks, g_child_process_list, os,
                         histograms, ui_tasks, ui_delivered, delegate_ >>
    ]_vars

C24_Witness ==
  \E h \in Hosts :
    \E i, j \in Positions(h, IsQuery) :
      /\ i < j
      /\ ~log[h][i].launcher
      /\ log[h][i].status = "STILL_RUNNING"
      /\ log[h][j].launcher
      /\ log[h][j].status = "PROCESS_WAS_KILLED"
      /\ life[h] = "alive"
      /\ data_[h].handle = kNullProcessHandle
      /\ child_process_[h].handle \in Handles

\* ----------------------------------------------------------------- C25

\* C25: whenever OnChildDisconnected runs, the handle of data_ is not null
\* (the DCHECK at its entry holds): on a host that Launch was called on, no
\* order of the channel's events and the launcher's callback calls
\* OnChildDisconnected before the launch has completed with a valid handle
\* or SetHandle has given a handle.
C25_HandleAtDisconnect ==
  [][\A h \in Hosts :
       (CallStep(h) /\ child_process_[h].present) =>
         data_[h].handle # kNullProcessHandle
    ]_vars

\* ----------------------------------------------------------------- C26

\* A re-check of host h is scheduled and has not run.
PendingRecheck(h) == delayed_tasks[h] > 0 \/ child_watcher_[h].watching

\* C26: nothing runs on a destroyed host: its log, its delegate and the
\* tasks posted for it stay as they are, its watcher does not watch, and a
\* delayed task that comes due after the destruction changes nothing but
\* the task queue.  A call of OnChildDisconnected that arrives while the
\* re-check is pending performs the terminal step, once, and destroys the
\* host with its watcher.
C26_LateRecheckHasNoEffect ==
  [][\A h \in Hosts :
       /\ life[h] = "deleted" =>
            /\ life'[h] = "deleted"
            /\ log'[h] = log[h]
            /\ delegate_'[h] = delegate_[h]
            /\ TypesFor(ui_tasks', h) = TypesFor(ui_tasks, h)
            /\ ~child_watcher_[h].watching /\ ~child_watcher_'[h].watching
            /\ delayed_tasks'[h] <= delayed_tasks[h]
            /\ delayed_tasks'[h] < delayed_tasks[h] =>
                 UNCHANGED << members, g_child_process_list, os, histograms,
                              ui_tasks, ui_delivered, log, delegate_ >>
       /\ (CallStep(h) /\ PendingRecheck(h)) =>
            /\ TheCall(h).was_alive
            /\ EndsWithTerminalStep(h)
            /\ ~child_watcher_'[h].watching
            /\ Cardinality(Positions(h, IsDisconnectedNotify)) = 0
    ]_vars

C26_Witness ==
  \E h \in Hosts :
    /\ platform = "OS_POSIX"
    /\ life[h] = "deleted"
    /\ Cardinality(Positions(h, IsSchedule)) = 1
    /\ Cardinality(Positions(h, IsOnChildDisconnected)) = 1
    /\ log[h][Len(log[h]) - 1].e = "TerminateAll"
    /\ delayed_tasks[h] = 0

\* ----------------------------------------------------------------- C27

\* The calls of OnChildDisconnected among the entries a step adds to the
\* log of host h.
CallsInStep(h) ==
  Cardinality({ i \in 1..Len(NewEntries(h)) :
                  IsOnChildDisconnected(NewEntries(h)[i]) })

\* C27: when the watched handle is signaled and the exit code is
\* STILL_ACTIVE, OnWaitableEventSignaled deletes the host and does not call
\* OnChildDisconnected: nothing is counted or posted and the delegate is
\* not called.  With any other exit code it calls OnChildDisconnected
\* exactly once, and that call, made with disconnect_was_alive_ set, does
\* not wait again.
C27_SignaledHandle ==
  [][\A h \in Hosts : \A exit_code \in ExitCodes :
       OnWaitableEventSignaled(h, exit_code) =>
         /\ platform = "OS_WIN"
         /\ child_watcher_[h].watching
         /\ life'[h] = "deleted"
         /\ exit_code = STILL_ACTIVE =>
              /\ NewEntries(h) =
                   << [e |-> "OnWaitableEventSignaled",
                       exit_code |-> STILL_ACTIVE], DeleteThis >>
              /\ CallsInStep(h) = 0
              /\ histograms' = histograms
              /\ ui_tasks' = ui_tasks
              /\ delegate_' = delegate_
              /\ h \notin Elements(g_child_process_list')
         /\ exit_code # STILL_ACTIVE =>
              /\ CallsInStep(h) = 1
              /\ CallStep(h)
              /\ TheCall(h).exit_code = exit_code
              /\ TheCall(h).was_alive
              /\ ~IsSchedule(NewEntries(h)[2])
    ]_vars

C27_Witness ==
  \E h \in Hosts :
    /\ life[h] = "deleted"
    /\ Len(log[h]) >= 4
    /\ log[h][Len(log[h]) - 1] =
         [e |-> "OnWaitableEventSignaled", exit_code |-> STILL_ACTIVE]
    /\ IsSchedule(log[h][Len(log[h]) - 2])
    /\ Cardinality(Positions(h, IsOnChildDisconnected)) = 1
    /\ Positions(h, IsDisconnectedNotify) = {}
    /\ \E p \in Handles : os[p] = "PROCESS_WAS_KILLED"

\* ----------------------------------------------------------------- C28

\* C28: the list holds only hosts that exist: a host that is destroyed, by
\* itself in OnChildDisconnected, OnProcessLaunched or
\* OnWaitableEventSignaled, by TerminateAll or by its owner, is not in the
\* list afterwards, and neither is a host not yet constructed.
C28_ListHoldsLiveHosts ==
  \A i \in 1..Len(g_child_process_list) :
    /\ g_child_process_list[i] \in Hosts
    /\ life[g_child_process_list[i]] = "alive"

C28_Witness ==
  \E h \in Hosts :
    /\ life[h] = "deleted"
    /\ h \notin Elements(g_child_process_list)
    /\ log[h][Len(log[h])] = DeleteThis
    /\ log[h][Len(log[h]) - 1].e = "TerminateAll"
    /\ child_process_[h] = NoLauncher
    /\ delegate_[h].OnProcessLaunched = 1
    /\ delegate_[h].OnChannelError = 1

\* ----------------------------------------------------------------- C29

\* The statuses with a case of their own in the switch.
HandledStatuses == Crashes \cup { "PROCESS_WAS_KILLED", "STILL_RUNNING" }

\* C29: a call of OnChildDisconnected that reads any other status, a
\* normal exit, does the terminal step and nothing else: it counts
\* ChildProcess.Disconnected, posts CHILD_PROCESS_HOST_DISCONNECTED and
\* deletes the host; the five other histograms are unchanged, the
\* delegate is not called and no CHILD_PROCESS_CRASHED is posted, whether
\* or not disconnect_was_alive_ is set.
C29_DefaultCase ==
  [][\A h \in Hosts :
       (CallStep(h) /\ TheCall(h).status \notin HandledStatuses) =>
         /\ NewEntries(h) =
              << TheCall(h),
                 UmaSample(h, "ChildProcess.Disconnected"),
                 NotifyCall("CHILD_PROCESS_HOST_DISCONNECTED"),
                 DeleteThis >>
         /\ \A n \in HistogramNames \ {"ChildProcess.Disconnected"} :
              histograms'[n] = histograms[n]
         /\ CountAfter(h, "ChildProcess.Disconnected") =
              Count(h, "ChildProcess.Disconnected") + 1
         /\ delegate_' = delegate_
         /\ ui_tasks' =
              Append(ui_tasks, [type |-> "CHILD_PROCESS_HOST_DISCONNECTED",
                                data |-> data_[h]])
         /\ life'[h] = "deleted"
    ]_vars

C29_Witness ==
  \E h \in Hosts :
    \E i \in Positions(h, IsRecheckCall) :
      /\ log[h][i].status = "NORMAL_TERMINATION"
      /\ Len(log[h]) = i + 3
      /\ life[h] = "deleted"
      /\ \A n \in HistogramNames \ {"ChildProcess.Disconnected"} :
           \A t \in ProcessTypes : histograms[n][t] = 0
      /\ \E t \in ProcessTypes : histograms["ChildProcess.Disconnected"][t] = 1
      /\ Positions(h, IsCrashedNotify) = {}

\* ----------------------------------------------------------------- C30

\* The CHILD_PROCESS_HOST_DISCONNECTED notifications posted so far for
\* hosts of process type t, delivered or not.
DisconnectedPosted(t) ==
  Cardinality({ i \in 1..Len(ui_delivered \o ui_tasks) :
                  /\ (ui_delivered \o ui_tasks)[i].type =
                       "CHILD_PROCESS_HOST_DISCONNECTED"
                  /\ (ui_delivered \o ui_tasks)[i].data.type = t })

CountersOrdered ==
  \A t \in ProcessTypes :
    /\ histograms["ChildProcess.CrashedWasAlive"][t]
         <= histograms["ChildProcess.Crashed"][t]
    /\ histograms["ChildProcess.KilledWasAlive"][t]
         <= histograms["ChildProcess.Killed"][t]
    /\ histograms["ChildProcess.Crashed"][t]
         + histograms["ChildProcess.Killed"][t]
         + histograms["ChildProcess.DisconnectedAlive"][t]
         <= histograms["ChildProcess.Disconnected"][t]
    /\ histograms["ChildProcess.Disconnected"][t] = DisconnectedPosted(t)

CountersNeverDecrease ==
  \A n \in HistogramNames : \A t \in ProcessTypes :
    histograms'[n][t] >= histograms[n][t]

\* C30: for every process type the six histograms never decrease, and in
\* every state CrashedWasAlive <= Crashed, KilledWasAlive <= Killed,
\* Crashed + Killed + DisconnectedAlive <= Disconnected, and Disconnected
\* is the number of CHILD_PROCESS_HOST_DISCONNECTED notifications posted
\* for hosts of that type.
C30_Counters ==
  /\ []CountersOrdered
  /\ [][CountersNeverDecrease]_vars

C30_Witness ==
  \E t \in ProcessTypes :
    /\ histograms["ChildProcess.Disconnected"][t] = 2
    /\ histograms["ChildProcess.Crashed"][t] = 1
    /\ histograms["ChildProcess.CrashedWasAlive"][t] = 0
    /\ histograms["ChildProcess.DisconnectedAlive"][t] = 1
    /\ DisconnectedPosted(t) = 2

\* ----------------------------------------------------------------- C31

\* How many tasks named `task` the loop holds.
Queued(task) ==
  Cardinality({ i \in 1..Len(message_loop) : message_loop[i] = task })

\* While the loop runs: a QuitClosure is in the loop only when a stop
\* callback has run; Stop has been called at most once; and once it has
\* been called, g_running is false and no PeriodicalUpdate is queued or
\* waiting for its delay.
StopRequestedOnce ==
  /\ pipeline.stops <= 1
  /\ pipeline.owed <= pipeline.stops
  /\ main_pc = "Run" =>
       /\ Queued("Quit") = pipeline.stops - pipeline.owed
       /\ pipeline.stops > 0 =>
            /\ ~g_running
            /\ Queued("PeriodicalUpdate") = 0
            /\ delayed_update = 0

\* A QuitClosure is posted only by the step that runs a stop callback, and
\* message_loop.Run() returns only by running a QuitClosure.
QuitOnlyAfterStopCallback ==
  /\ Len(SelectSeq(message_loop', LAMBDA t : t = "Quit"))
       > Len(SelectSeq(message_loop, LAMBDA t : t = "Quit")) =>
       /\ pipeline.owed > 0
       /\ pipeline'.owed = pipeline.owed - 1
  /\ (main_pc = "Run" /\ main_pc' # "Run") =>
       /\ Head(message_loop) = "Quit"
       /\ pipeline.stops = 1 /\ pipeline.owed = 0

\* C31: the message loop of the player is asked to quit only after the stop
\* callback of the pipeline has run, and a PeriodicalUpdate that has
\* requested the stop (g_running false, or Escape) does not post itself
\* again, so pipeline->Stop is requested at most once in a run.
C31_StopOnceThenQuit ==
  /\ []StopRequestedOnce
  /\ [][QuitOnlyAfterStopCallback]_vars

C31_Witness ==
  /\ main_pc = "Exited"
  /\ signals = 0
  /\ ~g_running
  /\ pipeline = [rate |-> 1, stops |-> 1, owed |-> 0]
  /\ x_events = << "ButtonPress" >>
  /\ message_loop = << >>

\* ----------------------------------------------------------------- C32

\* C32: when g_running is false while the main loop runs, as after
\* TerminateHandler, message_loop.Run() eventually returns, given that the
\* loop runs its tasks and the pipeline runs the callback of Stop.
C32_LoopQuits ==
  (main_pc = "Run" /\ ~g_running) ~> (main_pc \in { "Cleanup", "Exited" })

C32_Witness ==
  /\ main_pc = "Run"
  /\ signals = 1
  /\ ~g_running
  /\ pipeline.stops = 0
  /\ delayed_update = 1
  /\ x_events = << "Escape" >>

\* ----------------------------------------------------------------- C33

\* The wait of the destructor on disconnected_event_ returns.
DestructorWaitReturns == (np_pc = "Waiting") ~> (np_pc = "Destroyed")

\* C33: the destructor of HostNPScriptObject shuts the host down
\* synchronously: when its wait on disconnected_event_ has returned, the
\* host has been shut down and host_ is null.
C33_HostShutDownAtReturn == np_pc = "Destroyed" => host_ = 0

\* ----------------------------------------------------------------- C34

\* DisconnectInternal requests waiting on the main loop.
DisconnectsPosted(loop) ==
  Len(SelectSeq(loop, LAMBDA t : t = "DisconnectInternal"))

\* The step in which the login denied is the kMaxLoginAttempts-th of the
\* connection asks for the disconnect.
DisconnectsAtMaxAttempts ==
  (denied_here' = kMaxLoginAttempts /\ denied_here = kMaxLoginAttempts - 1)
    => DisconnectsPosted(main_message_loop')
         = DisconnectsPosted(main_message_loop) + 1

\* C34: in every connection started with connect(), not only the first, the
\* host is disconnected once kMaxLoginAttempts (5) logins have been denied
\* during that connection.
C34_DisconnectPerConnection == [][DisconnectsAtMaxAttempts]_vars

\* ----------------------------------------------------------------- C35

\* A step taken with destructing_ set leaves state_ alone and does not call
\* the onStateChanged function.
NoStateChangeWhileDestructing ==
  destructing_ =>
    /\ state_' = state_
    /\ js_calls' = js_calls
    /\ state_writer' = state_writer

\* C35: state_ is written, and the onStateChanged function of the script
\* called, on the plugin thread only; once the destructor has set
\* destructing_, no call of OnStateChanged, direct or from a task posted
\* before, writes state_ or calls the function.
C35_StateOnPluginThread ==
  /\ [](state_writer \in { "none", "np" })
  /\ [](destructing_ => \A t \in Threads, st \in States :
                          OnStateChanged(ScriptState, t, st) = ScriptState)
  /\ [][NoStateChangeWhileDestructing]_vars

\* A first state change was written on the plugin thread and called the
\* function; the second ConnectInternal ran after the destructor had begun,
\* and its OnStateChanged(kRequestedAccessCode) was dropped.
C35_Witness ==
  /\ np_pc = "Waiting"
  /\ destructing_
  /\ host_ = 2
  /\ shutting = 0
  /\ main_message_loop = << "DisconnectInternal" >>
  /\ np_tasks = << >>
  /\ state_ = "kDisconnected"
  /\ state_writer = "np"
  /\ js_calls = 1

\* ----------------------------------------------------------------- C36

\* The major version a function table declares.
MajorVersion(funcs) == (TableVersion(funcs) \div 256) % 256

\* The errors the claim gives for a call NP_Initialize(funcs) made in the
\* current state; none for valid arguments to an uninitialized plugin.
Refusals(funcs) ==
  IF g_at_exit_manager THEN { "NPERR_MODULE_LOAD_FAILED_ERROR" }
  ELSE { e \in { "NPERR_INVALID_FUNCTABLE_ERROR",
                 "NPERR_INCOMPATIBLE_VERSION_ERROR" } :
           \/ e = "NPERR_INVALID_FUNCTABLE_ERROR" /\ funcs = 0
           \/ /\ e = "NPERR_INCOMPATIBLE_VERSION_ERROR"
              /\ funcs # 0
              /\ MajorVersion(funcs) > NP_VERSION_MAJOR }

\* What a call of NP_Initialize or NP_Shutdown returns and does to the
\* globals.
InitializeAndShutdownStep ==
  np_calls' # np_calls =>
    LET call == np_calls'[Len(np_calls')] IN
      /\ call.fn = "NP_Initialize" =>
           /\ IF Refusals(call.arg) = { }
                THEN call.err = "NPERR_NO_ERROR"
                ELSE call.err \in Refusals(call.arg)
           /\ IF call.err = "NPERR_NO_ERROR"
                THEN /\ g_at_exit_manager'
                     /\ g_npnetscape_funcs' = call.arg
                ELSE UNCHANGED << g_at_exit_manager, g_npnetscape_funcs >>
      /\ call.fn = "NP_Shutdown" => ~g_at_exit_manager'
      /\ g_at_exit_manager' # g_at_exit_manager =>
           (g_at_exit_manager' <=> call.fn = "NP_Initialize")

\* C36: NP_Initialize fails with NPERR_MODULE_LOAD_FAILED_ERROR when the
\* plugin is initialized, with NPERR_INVALID_FUNCTABLE_ERROR for a null
\* table and with NPERR_INCOMPATIBLE_VERSION_ERROR for a larger major
\* version, and a failure leaves the at-exit manager and the function table
\* as they were; with valid arguments and no manager, as after NP_Shutdown,
\* it succeeds; the manager exists exactly from a successful NP_Initialize
\* to the next NP_Shutdown.
C36_InitializeAndShutdown ==
  /\ [](g_at_exit_manager => g_npnetscape_funcs # 0)
  /\ [][InitializeAndShutdownStep]_vars

\* The plugin was initialized with table 1 and shut down, refused a table
\* of a larger major version, and was initialized again with table 2.
C36_Reinitialized ==
  /\ np_calls =
       << [fn |-> "NP_Initialize", arg |-> 1, err |-> "NPERR_NO_ERROR"],
          [fn |-> "NP_Shutdown", arg |-> 0, err |-> "NPERR_NO_ERROR"],
          [fn |-> "NP_Initialize", arg |-> 3,
           err |-> "NPERR_INCOMPATIBLE_VERSION_ERROR"],
          [fn |-> "NP_Initialize", arg |-> 2, err |-> "NPERR_NO_ERROR"] >>
  /\ g_at_exit_manager
  /\ g_npnetscape_funcs = 2

\* ----------------------------------------------------------------- C37

\* A call of Relayout made while a pass is in progress returns with the
\* bounds as they were and without a pass of its own.
ReentrantCallReturns ==
  \A laid_out \in LayoutInputs :
    LET st == [in_layout_ |-> TRUE, bounds |-> panel_bounds, passes |-> 0,
               reentered |-> 0]
    IN  Relayout(st, panel_windows_, dragged_panel_, laid_out, MaxReenter)
          = [st EXCEPT !.reentered = 1]

\* Every handler but StartDragging lays the panels out, once, whatever its
\* callbacks call.
EveryEventLaysOut ==
  (panel_vars' # panel_vars /\ ~(dragged_panel_ = 0 /\ dragged_panel_' # 0))
    => layout_passes' = 1

\* C37: Relayout is not re-entered: a call made while a pass is in
\* progress returns without moving a panel; in_layout_ is false whenever no
\* Relayout executes, so every event that asks for a layout outside a pass
\* gets one.
C37_NoReentry ==
  /\ [](~in_layout_ /\ layout_passes <= 1)
  /\ []ReentrantCallReturns
  /\ [][EveryEventLaysOut]_vars

\* Panel 1 was put above its icon by a pass whose callbacks called Relayout
\* again.
C37_Witness ==
  /\ panel_windows_ = << 1 >>
  /\ panel_bounds[1] = [x |-> IconCentre(1) - 1, width |-> 2]
  /\ layout_passes = 1
  /\ reentered = 1
  /\ ~in_layout_

\* ----------------------------------------------------------------- C38

\* C38: after any sequence of OnWindowAddedToLayout,
\* OnWillRemoveWindowFromLayout, StartDragging, SetChildBounds and
\* FinishDragging, panel_windows_ holds the panels added and not yet
\* removed, each once; repositioning the dragged panel permutes the list.
C38_ListHoldsPanels ==
  /\ Range(panel_windows_) = Range(children)
  /\ Len(panel_windows_) = Cardinality(Range(children))
  /\ Len(children) = Cardinality(Range(children))

\* Panel 2, added after panel 1, was dragged in front of it.
C38_Witness ==
  /\ children = << 1, 2 >>
  /\ panel_windows_ = << 2, 1 >>
  /\ dragged_panel_ = 2

==========================================================================
